---- MODULE Spec2Model ----
(***************************************************************************)
(* Scan configuration and error supervision of the two SCPI wrappers       *)
(*   KS34980A  (src/module_34980A.py)                                      *)
(*   Daq970a   (src/module_daq970a_visa.py)                                *)
(*                                                                         *)
(* One wrapper object talks to one instrument over a blocking transport.   *)
(* Every transport call (device.write / device.query) is one step; the     *)
(* local code that follows a call, up to the next call, belongs to the     *)
(* step of the call it follows.                                            *)
(*                                                                         *)
(* Units: times and timeouts are integers in microseconds (the code holds  *)
(* seconds and milliseconds as floats); NPLC values are integers in        *)
(* thousandths of a power line cycle.  Strings the code inspects           *)
(* (startswith, rstrip, ==) are sequences of one-character strings.        *)
(***************************************************************************)
EXTENDS Integers, Sequences, FiniteSets, TLC

VARIABLES
    wrapper,        \* which class the object is: "KS34980A" or "Daq970a"
    device,         \* self.device is not None
    is_connected,   \* self._is_connected
    session_valid,  \* transport: the VISA session behind self.device is usable
    timeout,        \* self.device.timeout, in microseconds
    inst_trig_sour, \* instrument: applied trigger source
    inst_errq,      \* instrument: SYST:ERR queue, oldest first
    inst_scan,      \* instrument: size of the scan list and trigger count
    op,             \* the method last called
    pc,             \* position inside the method, "idle" between calls
    arg,            \* arguments of the call
    loc,            \* local variables of the call
    hist,           \* values at call start / drain start, kept for the properties
    log,            \* transport calls and local events of the current call, in order
    outcome,        \* "none" while running, then "returned" or "raised"
    exc,            \* the exception raised
    ret,            \* the value returned
    res_man,        \* self.res_man is not None
    heap,           \* the array buffers alive, by buffer id
    held            \* caller: the get_raw_data results it still holds, oldest first

vars == <<wrapper, device, is_connected, session_valid, timeout, inst_trig_sour, inst_errq,
          inst_scan,
          op, pc, arg, loc, hist, log, outcome, exc, ret, res_man, heap, held>>

----------------------------------------------------------------------------
(* Bounds of the model *)

\* capacity of the instrument's error queue in the model
MaxErr == 2

----------------------------------------------------------------------------
(* Strings *)

LF == "\n"
Whitespace == {" ", LF}

S_TIM == <<"T", "I", "M">>
S_IMM == <<"I", "M", "M">>
S_PLUS0 == <<"+", "0">>

\* str.startswith
StartsWith(s, p) ==
    /\ Len(s) >= Len(p)
    /\ SubSeq(s, 1, Len(p)) = p

\* str.rstrip
RECURSIVE Rstrip(_)
Rstrip(s) ==
    IF s = <<>> THEN <<>>
    ELSE IF s[Len(s)] \in Whitespace THEN Rstrip(SubSeq(s, 1, Len(s) - 1))
    ELSE s

----------------------------------------------------------------------------
(* The instrument and the transport: inputs of the wrapper *)

\* error texts the instrument queues, as SYST:ERR? sends them (without the newline)
ErrTexts == { <<"-", "2", "2", "2">>, <<"+", "5", "0", "1">> }
NoErrorText == <<"+", "0", ",", "N">>

\* TRIG:TIM? replies (microseconds) and TRIG:COUN? replies
TrigTimes == {100000, 1000000}
TrigCounts == {1, 10}
\* VOLT:DC:NPLC? replies, one value per channel (thousandths)
NplcReplies == { <<20, 1000, 200>> }
\* CONF? replies: "V 1,3","V 2,3" (mode, range and resolution of two channels)
QUOTE == "\""
ConfReplies ==
    { <<QUOTE, "V", " ", "1", ",", "3", QUOTE, ",",
        QUOTE, "V", " ", "2", ",", "3", QUOTE, LF>> }
\* CONF? replies with one entry that is malformed: "V 1,3","V 2" (too few fields),
\* "V x,3","V 2,3" and "V 1,3","V 2,x" (a range, a resolution that is no number)
MalformedConfReplies ==
    { <<QUOTE, "V", " ", "1", ",", "3", QUOTE, ",", QUOTE, "V", " ", "2", QUOTE, LF>>,
      <<QUOTE, "V", " ", "x", ",", "3", QUOTE, ",",
        QUOTE, "V", " ", "2", ",", "3", QUOTE, LF>>,
      <<QUOTE, "V", " ", "1", ",", "3", QUOTE, ",",
        QUOTE, "V", " ", "2", ",", "x", QUOTE, LF>> }
\* ROUT:SCAN? replies of the DAQ970A: definite-length blocks, newline-terminated
ScanReplies ==
    { <<"#", "1", "3", "(", "@", ")", LF>>,
      <<"#", "2", "1", "0", "(", "@", "1", "0", "1", ":", "1", "0", "2", ")", LF>> }
S_EMPTY_LIST == <<"(", "@", ")">>

\* how a transport call can fail: pyvisa's VisaIOError with or without the text
\* "Invalid session handle", or an exception that is no VisaIOError
Faults == {"VisaIOError", "VisaIOError: Invalid session handle", "InvalidSession"}
IsVisaIOError(f) == f \in {"VisaIOError", "VisaIOError: Invalid session handle"}
\* the failures that report a dead session; a dead session stays dead
SessionFaults == {"VisaIOError: Invalid session handle", "InvalidSession"}

\* the writes that carry a value of the caller, which the instrument may reject
SettingWrites == {"ROUT:SCAN", "VOLT:DC:NPLC", "CONF:VOLT:DC", "TRIG:TIM", "TRIG:COUN"}

\* the error queue after a write: a rejected setting queues an error
QueueAfterWrite(cmd, q) ==
    {q} \cup (IF cmd \in SettingWrites /\ Len(q) < MaxErr
              THEN {Append(q, e) : e \in ErrTexts} ELSE {})

----------------------------------------------------------------------------
(* Arguments *)

NoneMs == [kind |-> "None", v |-> 0]
AutoMs == [kind |-> "AUTO", v |-> 0]
\* (str_channel, nplc)
ChanNplcArgs == { <<"101:102", <<10000>>>>, <<"101:102", <<>>>>, <<"None", <<>>>> }
TrigArgs == { <<>>, <<1000000, 10>> }
MsArgs == { NoneMs, AutoMs, [kind |-> "num", v |-> 500000] }

NoArgs == [str_channel |-> "None", nplc |-> <<>>, tup_trig_tim_cnt |-> <<>>,
           ms_timeout |-> NoneMs]
NoLoc == [ch_list |-> <<>>, list_nplc |-> <<>>, list_conf |-> <<>>,
          trig_source |-> <<>>, trig_time |-> 0, trig_count |-> 0, errors |-> <<>>]
NoExc == [type |-> "none", chain |-> <<>>, errors |-> <<>>]
NoRet == [kind |-> "none", list_conf |-> <<>>, list_nplc |-> <<>>,
          trig_source |-> <<>>, trig_time |-> 0, trig_count |-> 0, errors |-> <<>>]
NoHist == [timeout0 |-> 0, errq0 |-> <<>>, drained |-> FALSE, drain_fault |-> FALSE]
\* the instrument after a reset: no scan list, one trigger
NoScan == [size |-> 0, count |-> 1]
\* no array buffer alive
NoHeap == [b \in {} |-> <<>>]

----------------------------------------------------------------------------
(* Pure helpers of the wrappers *)

ErrorOf(w) == IF w = "KS34980A" THEN "KS34980AError" ELSE "DAQ970AError"

\* int() of one decimal digit
DigitVal(c) ==
    CASE c = "0" -> 0 [] c = "1" -> 1 [] c = "2" -> 2 [] c = "3" -> 3 [] c = "4" -> 4
      [] c = "5" -> 5 [] c = "6" -> 6 [] c = "7" -> 7 [] c = "8" -> 8 [] c = "9" -> 9

\* int() of a string of decimal digits
RECURSIVE IntOf(_)
IntOf(s) ==
    IF s = <<>> THEN 0
    ELSE 10 * IntOf(SubSeq(s, 1, Len(s) - 1)) + DigitVal(s[Len(s)])

\* Python slice s[a:b] with 0-based a <= b, clipped to the string
Slice(s, a, b) ==
    SubSeq(s, a + 1, IF b < Len(s) THEN b ELSE Len(s))

\* str.strip
RECURSIVE Lstrip(_)
Lstrip(s) ==
    IF s = <<>> THEN <<>>
    ELSE IF s[1] \in Whitespace THEN Lstrip(Tail(s))
    ELSE s

Strip(s) == Lstrip(Rstrip(s))

Digits == {"0", "1", "2", "3", "4", "5", "6", "7", "8", "9"}

\* str.split(sep)
RECURSIVE Split(_, _)
Split(s, sep) ==
    IF \A i \in 1..Len(s) : s[i] # sep THEN <<s>>
    ELSE LET i == CHOOSE k \in 1..Len(s) :
                      s[k] = sep /\ \A j \in 1..(k - 1) : s[j] # sep
         IN  <<SubSeq(s, 1, i - 1)>> \o Split(SubSeq(s, i + 1, Len(s)), sep)

\* float(token) does not raise: over the characters of the model, a decimal number
\* with blanks around it
IsNumber(token) ==
    LET t == Strip(token)
    IN  t # <<>> /\ \A i \in 1..Len(t) : t[i] \in Digits

\* float(token)
Float(token) == IntOf(Strip(token))

\* str.split(sep) for a separator of several characters
RECURSIVE SplitOn(_, _)
SplitOn(s, sep) ==
    LET at == {k \in 1..(Len(s) - Len(sep) + 1) : SubSeq(s, k, k + Len(sep) - 1) = sep}
    IN  IF at = {} THEN <<s>>
        ELSE LET i == CHOOSE k \in at : \A j \in at : k <= j
             IN  <<SubSeq(s, 1, i - 1)>> \o SplitOn(SubSeq(s, i + Len(sep), Len(s)), sep)

\* re.split("[, ]", conf): split at every comma and every blank
RECURSIVE ReSplit(_)
ReSplit(conf) ==
    LET at == {k \in 1..Len(conf) : conf[k] \in {",", " "}}
    IN  IF at = {} THEN <<conf>>
        ELSE LET i == CHOOSE k \in at : \A j \in at : k <= j
             IN  <<SubSeq(conf, 1, i - 1)>> \o ReSplit(SubSeq(conf, i + 1, Len(conf)))

\* x.replace('"', '')
IsNoQuote(c) == c # QUOTE
Unquote(x) == SelectSeq(x, IsNoQuote)

\* list_conf = [x.strip().replace('"', '') for x in ret_conf.split('","')]
list_conf(ret_conf) ==
    LET entries == SplitOn(ret_conf, <<QUOTE, ",", QUOTE>>)
    IN  [i \in 1..Len(entries) |-> Unquote(Strip(entries[i]))]

\* the body of the parsing loop raises ValueError for conf: with three or more
\* parts, float(parts[1]) or float(parts[2]) fails
ConfParseRaises(conf) ==
    LET parts == ReSplit(conf)
    IN  Len(parts) >= 3 /\ (~IsNumber(parts[2]) \/ ~IsNumber(parts[3]))

\* slip: ValueError missing from the except clause of the parsing loop
ConfParseCaught_index_only(e) == e = "IndexError"

\* the except clause of the parsing loop: except (ValueError, IndexError)
ConfParseCaught(e) == e \in {"ValueError", "IndexError"}

\* slip: the payload taken to begin one character early
_extract_channel_list_off_by_one(block_string) ==
    IF ~StartsWith(block_string, <<"#">>) THEN Strip(block_string)
    ELSE LET num_digits == DigitVal(block_string[2])
             length == IntOf(Strip(Slice(block_string, 2, 2 + num_digits)))
         IN  Slice(block_string, 1 + num_digits, 1 + num_digits + length)

\* slip: the length field passed over, all that follows it handed back
_extract_channel_list_ignores_length(block_string) ==
    IF ~StartsWith(block_string, <<"#">>) THEN Strip(block_string)
    ELSE LET num_digits == DigitVal(block_string[2])
         IN  Slice(block_string, 2 + num_digits, Len(block_string))

\* Daq970a._extract_channel_list, where it does not raise; int() passes over blanks
\* around the digits
_extract_channel_list(block_string) ==
    IF ~StartsWith(block_string, <<"#">>) THEN Strip(block_string)
    ELSE LET num_digits == DigitVal(block_string[2])
             length == IntOf(Strip(Slice(block_string, 2, 2 + num_digits)))
         IN  Slice(block_string, 2 + num_digits, 2 + num_digits + length)

Max(S) == CHOOSE x \in S : \A y \in S : y <= x
Range(s) == {s[i] : i \in 1..Len(s)}

\* slip: the first channel's NPLC taken for the largest
max_nplc_first(list_nplc) == IF list_nplc # <<>> THEN list_nplc[1] ELSE 1000

\* max_nplc = np.max(list_nplc) if list_nplc else 1.0   (thousandths)
max_nplc(list_nplc) == IF list_nplc # <<>> THEN Max(Range(list_nplc)) ELSE 1000

\* max_time = max_nplc / 50.0 seconds, here in microseconds
max_time(list_nplc) == max_nplc(list_nplc) * 20

\* the "+ 3" seconds of the derived timeout, in microseconds
SafetyMarginUs == 3000000

\* slip: the derived timeout of one trigger, not of trig_count triggers
calculated_timeout_one_trigger(trig_time, list_nplc, trig_count) ==
    trig_time + max_time(list_nplc) + SafetyMarginUs

\* calculated_timeout = 1000 * (trig_time + max_time + 3) * trig_count  [ms]
calculated_timeout(trig_time, list_nplc, trig_count) ==
    (trig_time + max_time(list_nplc) + SafetyMarginUs) * trig_count

\* slip: no ms_timeout falls back to the 5000 ms default
TimeoutAfter_none_resets(ms_timeout, trig_time, list_nplc, trig_count, current) ==
    IF ms_timeout.kind = "None" THEN 5000000
    ELSE IF ms_timeout.kind = "AUTO"
         THEN calculated_timeout(trig_time, list_nplc, trig_count)
         ELSE ms_timeout.v

\* the "Set timeout" block: the value of device.timeout after it
TimeoutAfter(ms_timeout, trig_time, list_nplc, trig_count, current) ==
    IF ms_timeout.kind = "None" THEN current
    ELSE IF ms_timeout.kind = "AUTO"
         THEN calculated_timeout(trig_time, list_nplc, trig_count)
         ELSE ms_timeout.v

\* estimated_time of the timeout-sufficiency check, in microseconds
estimated_time(w, trig_source, trig_time, trig_count) ==
    IF w = "Daq970a" /\ trig_source = S_IMM THEN 200000
    ELSE trig_time * trig_count

\* slip: milliseconds compared with seconds, the "* 1000" left out
TimeoutInsufficient_no_scale(w, to, trig_source, trig_time, trig_count) ==
    to < estimated_time(w, trig_source, trig_time, trig_count) \div 1000

\* device.timeout < estimated_time * 1000
TimeoutInsufficient(w, to, trig_source, trig_time, trig_count) ==
    to < estimated_time(w, trig_source, trig_time, trig_count)

\* self._default_timeout of KS34980A (5000 ms); pyvisa's default for Daq970a
DefaultTimeout(w) == IF w = "KS34980A" THEN 5000000 ELSE 2000000

----------------------------------------------------------------------------
(* Building blocks of the steps *)

LogEntry(kind, cmd, a) == [kind |-> kind, cmd |-> cmd, arg |-> a]

\* slip: the connected flag left out of the check
CheckConnection_device_only == wrapper = "Daq970a" \/ device

\* KS34980A._check_connection passes; Daq970a has no such check
CheckConnection == wrapper = "Daq970a" \/ (is_connected /\ device)

\* the messages write() and query() wrap a transport failure in
WriteFailChain(f) == <<"Write failed", f>>
QueryFailChain(f) == IF IsVisaIOError(f) THEN <<"Query failed", f>> ELSE <<f>>

\* write(): is_connected after a failure f of device.write
ConnectedAfterWriteFault(f) ==
    IF f = "VisaIOError: Invalid session handle" THEN FALSE ELSE is_connected

\* the transport call at hand can be answered / can fail with f
CanAnswer == session_valid
CanFail(f) == session_valid \/ f \in SessionFaults
SessionAfterFault(f) == session_valid /\ f \notin SessionFaults

\* the call ends with the wrapper's exception; its locals are gone
Raise(chain, errs) ==
    /\ outcome' = "raised"
    /\ exc' = [type |-> ErrorOf(wrapper), chain |-> chain, errors |-> errs]
    /\ ret' = NoRet
    /\ loc' = NoLoc
    /\ pc' = "idle"

\* where configure_volt_dc goes after each block
\* slip: the NPLC query left out when no NPLC value is given
AfterScan_skips_query == IF arg.nplc # <<>> THEN "nplc_w" ELSE "conf"

AfterScan == IF arg.nplc # <<>> THEN "nplc_w" ELSE "nplc_q"
AfterOpen == IF arg.str_channel # "None" THEN "scan" ELSE AfterScan
\* slip: the interval write left out of the timed branch
AfterTrigSour_skips_interval ==
    IF arg.tup_trig_tim_cnt # <<>> THEN "trig_coun" ELSE "conf_q"

AfterTrigSour == IF arg.tup_trig_tim_cnt # <<>> THEN "trig_tim" ELSE "conf_q"

\* one self.write(cmd) of configure_volt_dc at position `here`; ctx is the chain of
\* "... failed" messages the enclosing except clauses add; sour is the trigger
\* source the instrument holds after the write
CfgWrite(here, cmd, a, next, sour, ctx) ==
    /\ op = "configure_volt_dc"
    /\ pc = here
    /\ \/ /\ ~CheckConnection
          /\ Raise(ctx \o <<"Device is not connected">>, <<>>)
          /\ UNCHANGED <<log, is_connected, session_valid, inst_errq, inst_trig_sour>>
       \/ /\ CheckConnection
          /\ log' = Append(log, LogEntry("write", cmd, a))
          /\ \/ /\ CanAnswer
                /\ pc' = next
                /\ inst_errq' \in QueueAfterWrite(cmd, inst_errq)
                /\ inst_trig_sour' = sour
                /\ UNCHANGED <<is_connected, session_valid, loc, outcome, exc, ret>>
             \/ \E f \in Faults :
                /\ CanFail(f)
                /\ session_valid' = SessionAfterFault(f)
                /\ is_connected' = ConnectedAfterWriteFault(f)
                /\ Raise(ctx \o WriteFailChain(f), <<>>)
                /\ UNCHANGED <<inst_errq, inst_trig_sour>>
    /\ UNCHANGED <<res_man, heap, held, inst_scan, wrapper, device, timeout, op, arg, hist>>

\* a failing self.query(cmd) of configure_volt_dc: no reply
CfgQueryFails(cmd, ctx) ==
    /\ \/ /\ ~CheckConnection
          /\ Raise(ctx \o <<"Device is not connected">>, <<>>)
          /\ UNCHANGED <<log, session_valid>>
       \/ /\ CheckConnection
          /\ log' = Append(log, LogEntry("query", cmd, <<>>))
          /\ \E f \in Faults :
                /\ CanFail(f)
                /\ session_valid' = SessionAfterFault(f)
                /\ Raise(ctx \o QueryFailChain(f), <<>>)
    /\ UNCHANGED <<res_man, heap, held, inst_scan, wrapper, device, is_connected, timeout, inst_trig_sour, inst_errq,
                   op, arg, hist>>

\* an answered self.query(cmd) of configure_volt_dc that stores into loc; the log
\* keeps what the instrument replied
CfgQueryOk(cmd, reply, next, newloc) ==
    /\ CheckConnection
    /\ CanAnswer
    /\ log' = Append(log, LogEntry("query", cmd, <<reply>>))
    /\ loc' = newloc
    /\ pc' = next
    /\ UNCHANGED <<res_man, heap, held, inst_scan, wrapper, device, is_connected, session_valid, timeout,
                   inst_trig_sour, inst_errq, op, arg, hist, outcome, exc, ret>>

----------------------------------------------------------------------------
(* configure_volt_dc *)

\* the call itself, up to the first transport call
CallConfigure ==
    /\ pc = "idle"
    /\ \E cn \in ChanNplcArgs, tr \in TrigArgs, ms \in MsArgs :
          arg' = [str_channel |-> cn[1], nplc |-> cn[2], tup_trig_tim_cnt |-> tr,
                  ms_timeout |-> ms]
    /\ op' = "configure_volt_dc"
    /\ log' = <<>>
    /\ hist' = [NoHist EXCEPT !.timeout0 = timeout]
    /\ IF CheckConnection
       THEN /\ pc' = IF wrapper = "KS34980A" THEN "open_all" ELSE "scan_q"
            /\ outcome' = "none"
            /\ exc' = NoExc
            /\ ret' = NoRet
            /\ loc' = NoLoc
       ELSE Raise(<<"Device is not connected">>, <<>>)
    /\ UNCHANGED <<res_man, heap, held, inst_scan, wrapper, device, is_connected, session_valid, timeout,
                   inst_trig_sour, inst_errq>>

\* KS34980A: self.write("ROUT:OPEN:ALL")
WriteRoutOpenAll ==
    /\ wrapper = "KS34980A"
    /\ CfgWrite("open_all", "ROUT:OPEN:ALL", 0, AfterOpen, inst_trig_sour,
                <<"Configuration failed">>)

\* Daq970a: _ret = self.query("ROUT:SCAN?"); ch_list = self._extract_channel_list(_ret)
QueryRoutScan ==
    /\ wrapper = "Daq970a"
    /\ op = "configure_volt_dc"
    /\ pc = "scan_q"
    /\ \/ \E r \in ScanReplies :
            LET ch_list == _extract_channel_list(Rstrip(r))
            IN  CfgQueryOk("ROUT:SCAN?", r,
                           IF ch_list # S_EMPTY_LIST THEN "open" ELSE AfterOpen,
                           [loc EXCEPT !.ch_list = ch_list])
       \/ CfgQueryFails("ROUT:SCAN?", <<"Configuration failed">>)

\* Daq970a: self.write(f"ROUT:OPEN {ch_list}")
WriteRoutOpen ==
    /\ wrapper = "Daq970a"
    /\ CfgWrite("open", "ROUT:OPEN", 0, AfterOpen, inst_trig_sour,
                <<"Configuration failed">>)

\* self.write(f"ROUT:SCAN (@{str_channel})")
WriteRoutScan ==
    CfgWrite("scan", "ROUT:SCAN", 0, AfterScan, inst_trig_sour,
             <<"Configuration failed">>)

\* nplc(): self.write(cmd)
WriteNplc ==
    /\ pc = "nplc_w"
    /\ CfgWrite("nplc_w", "VOLT:DC:NPLC", arg.nplc[1], "nplc_q", inst_trig_sour,
                <<"Configuration failed", "NPLC operation failed">>)

\* nplc(): response = self.query(cmd_query, 0.3); then list_nplc = [float(x) ...]
QueryNplc ==
    /\ op = "configure_volt_dc"
    /\ pc = "nplc_q"
    /\ \/ \E r \in NplcReplies :
            CfgQueryOk("VOLT:DC:NPLC?", r, "conf", [loc EXCEPT !.list_nplc = r])
       \/ CfgQueryFails("VOLT:DC:NPLC?",
                        <<"Configuration failed", "NPLC operation failed">>)

\* self.write(f"CONF:VOLT:DC {volt_range},{resolution},(@{str_channel})")
WriteConfVoltDc ==
    CfgWrite("conf", "CONF:VOLT:DC", 0, "trig_sour", inst_trig_sour,
             <<"Configuration failed">>)

\* self.write("TRIG:SOUR TIM") or self.write("TRIG:SOUR IMM")
WriteTrigSour ==
    /\ op = "configure_volt_dc"
    /\ IF arg.tup_trig_tim_cnt # <<>>
       THEN CfgWrite("trig_sour", "TRIG:SOUR TIM", 0, AfterTrigSour, S_TIM,
                     <<"Configuration failed">>)
       ELSE CfgWrite("trig_sour", "TRIG:SOUR IMM", 0, AfterTrigSour, S_IMM,
                     <<"Configuration failed">>)

\* self.write(f"TRIG:TIM {tup_trig_tim_cnt[0]}")
WriteTrigTim ==
    /\ pc = "trig_tim"
    /\ CfgWrite("trig_tim", "TRIG:TIM", arg.tup_trig_tim_cnt[1], "trig_coun",
                inst_trig_sour, <<"Configuration failed">>)

\* self.write(f"TRIG:COUN {tup_trig_tim_cnt[1]}")
WriteTrigCoun ==
    /\ pc = "trig_coun"
    /\ CfgWrite("trig_coun", "TRIG:COUN", arg.tup_trig_tim_cnt[2], "conf_q",
                inst_trig_sour, <<"Configuration failed">>)

\* what self.query() hands back: KS34980A the raw reply, Daq970a response.rstrip()
QueryResult(w, reply) == IF w = "KS34980A" THEN reply ELSE Rstrip(reply)

\* the warnings the parsing loop logs: one for every entry it could not parse
ParseWarnings(entries) ==
    LET failed == {i \in 1..Len(entries) : ConfParseRaises(entries[i])}
        warning(i) == IF i \in failed
                      THEN <<LogEntry("log", "Failed to parse configuration", i)>>
                      ELSE <<>>
        RECURSIVE upto(_)
        upto(n) == IF n = 0 THEN <<>> ELSE upto(n - 1) \o warning(n)
    IN  upto(Len(entries))

\* ret_conf = self.query(f"CONF? (@{str_channel})"); list_conf = [...] and the
\* parsing loop, with the replies the instrument may give
QueryConfFrom(replies) ==
    /\ op = "configure_volt_dc"
    /\ pc = "conf_q"
    /\ \/ \E r \in replies :
            LET entries == list_conf(QueryResult(wrapper, r))
                raises == \E i \in 1..Len(entries) : ConfParseRaises(entries[i])
            IN  /\ CheckConnection
                /\ CanAnswer
                /\ IF raises /\ ~ConfParseCaught("ValueError")
                   THEN /\ log' = Append(log, LogEntry("query", "CONF?", <<r>>))
                        /\ Raise(<<"Configuration failed", "ValueError">>, <<>>)
                   ELSE /\ log' = Append(log, LogEntry("query", "CONF?", <<r>>))
                                  \o ParseWarnings(entries)
                        /\ loc' = [loc EXCEPT !.list_conf = entries]
                        /\ pc' = "sour_q"
                        /\ UNCHANGED <<outcome, exc, ret>>
                /\ UNCHANGED <<res_man, heap, held, inst_scan, wrapper, device,
                               is_connected, session_valid, timeout, inst_trig_sour,
                               inst_errq, op, arg, hist>>
       \/ CfgQueryFails("CONF?", <<"Configuration failed">>)

\* the instrument answering CONF? with well-formed entries
QueryConf == QueryConfFrom(ConfReplies)

\* the instrument answering CONF? with well-formed or malformed entries
QueryConfAny == QueryConfFrom(ConfReplies \cup MalformedConfReplies)

\* trig_source = self.query("TRIG:SOUR?").rstrip()
QueryTrigSour ==
    /\ op = "configure_volt_dc"
    /\ pc = "sour_q"
    /\ \/ CfgQueryOk("TRIG:SOUR?", inst_trig_sour \o <<LF>>, "tim_q",
                     [loc EXCEPT !.trig_source = Rstrip(inst_trig_sour \o <<LF>>)])
       \/ CfgQueryFails("TRIG:SOUR?", <<"Configuration failed">>)

\* trig_time = float(self.query("TRIG:TIM?"))
QueryTrigTim ==
    /\ op = "configure_volt_dc"
    /\ pc = "tim_q"
    /\ \/ \E t \in TrigTimes :
            CfgQueryOk("TRIG:TIM?", t, "coun_q", [loc EXCEPT !.trig_time = t])
       \/ CfgQueryFails("TRIG:TIM?", <<"Configuration failed">>)

\* what the code between TRIG:COUN? and check_errors() adds to the log:
\* the assignment to device.timeout and the warning
TimeoutEvents(ms_timeout, newto, insufficient) ==
    (IF ms_timeout.kind # "None"
     THEN <<LogEntry("set", "device.timeout", newto)>> ELSE <<>>)
    \o (IF insufficient THEN <<LogEntry("warn", "timeout insufficient", newto)>>
        ELSE <<>>)

\* trig_count = float(self.query("TRIG:COUN?")), then the "Set timeout" block and
\* the timeout-sufficiency check, up to the call of check_errors()
QueryTrigCoun ==
    /\ op = "configure_volt_dc"
    /\ pc = "coun_q"
    /\ \/ \E c \in TrigCounts :
            LET newto == TimeoutAfter(arg.ms_timeout, loc.trig_time, loc.list_nplc,
                                      c, timeout)
                insufficient == TimeoutInsufficient(wrapper, newto, loc.trig_source,
                                                    loc.trig_time, c)
            IN  /\ CheckConnection
                /\ CanAnswer
                /\ log' = Append(log, LogEntry("query", "TRIG:COUN?", <<c>>))
                           \o TimeoutEvents(arg.ms_timeout, newto, insufficient)
                /\ loc' = [loc EXCEPT !.trig_count = c]
                /\ timeout' = newto
                /\ hist' = [hist EXCEPT !.errq0 = inst_errq]
                /\ pc' = "drain"
                /\ UNCHANGED <<res_man, heap, held, inst_scan, wrapper, device, is_connected, session_valid,
                               inst_trig_sour, inst_errq, op, arg, outcome, exc, ret>>
       \/ CfgQueryFails("TRIG:COUN?", <<"Configuration failed">>)

----------------------------------------------------------------------------
(* check_errors, alone and as the last block of configure_volt_dc *)

\* slip: any reply with a plus sign taken for the "no error" reply
IsNoErrorSentinel_any_plus(error_response) == StartsWith(error_response, <<"+">>)

\* if error_response.startswith("+0"): break
IsNoErrorSentinel(error_response) == StartsWith(error_response, S_PLUS0)

\* slip: the exception built and not raised, in both wrappers
ConfigureRaisesOnErrors_never(w, errs) == FALSE

\* configure_volt_dc after check_errors(): KS34980A raises on a non-empty list;
\* Daq970a.check_errors builds the exception without raising it and returns None
ConfigureRaisesOnErrors(w, errs) == w = "KS34980A" /\ errs # <<>>

\* slip: the caller's own trigger interval, count and NPLC value handed back
ReturnConfig_requested ==
    /\ outcome' = "returned"
    /\ exc' = NoExc
    /\ ret' = [kind |-> "config", list_conf |-> loc.list_conf,
               list_nplc |-> IF arg.nplc # <<>> THEN arg.nplc ELSE loc.list_nplc,
               trig_source |-> loc.trig_source,
               trig_time |-> IF arg.tup_trig_tim_cnt # <<>>
                             THEN arg.tup_trig_tim_cnt[1] ELSE loc.trig_time,
               trig_count |-> IF arg.tup_trig_tim_cnt # <<>>
                              THEN arg.tup_trig_tim_cnt[2] ELSE loc.trig_count,
               errors |-> <<>>]
    /\ loc' = NoLoc
    /\ pc' = "idle"

\* return list_conf, list_nplc, trig_source, trig_time, trig_count
ReturnConfig ==
    /\ outcome' = "returned"
    /\ exc' = NoExc
    /\ ret' = [kind |-> "config", list_conf |-> loc.list_conf,
               list_nplc |-> loc.list_nplc, trig_source |-> loc.trig_source,
               trig_time |-> loc.trig_time, trig_count |-> loc.trig_count,
               errors |-> <<>>]
    /\ loc' = NoLoc
    /\ pc' = "idle"

\* the code after the while loop of check_errors, with errs the list collected
EndDrain(errs) ==
    IF op = "check_errors"
    THEN /\ outcome' = "returned"
         /\ exc' = NoExc
         /\ ret' = IF wrapper = "KS34980A"
                   THEN [NoRet EXCEPT !.kind = "errors", !.errors = errs]
                   ELSE [NoRet EXCEPT !.kind = "None"]
         /\ loc' = NoLoc
         /\ pc' = "idle"
    ELSE IF ConfigureRaisesOnErrors(wrapper, errs)
         THEN Raise(<<"Configuration failed", "Instrument errors during configuration">>,
                    errs)
         ELSE ReturnConfig

\* the call check_errors()
CallCheckErrors ==
    /\ pc = "idle"
    /\ op' = "check_errors"
    /\ pc' = "drain"
    /\ arg' = NoArgs
    /\ loc' = NoLoc
    /\ log' = <<>>
    /\ hist' = [NoHist EXCEPT !.timeout0 = timeout, !.errq0 = inst_errq]
    /\ outcome' = "none"
    /\ exc' = NoExc
    /\ ret' = NoRet
    /\ UNCHANGED <<res_man, heap, held, inst_scan, wrapper, device, is_connected, session_valid, timeout,
                   inst_trig_sour, inst_errq>>

\* one pass of the while loop: error_response = self.query("SYST:ERR?") and what
\* follows it; any exception ends the loop and is only logged
QuerySystErr ==
    /\ pc = "drain"
    /\ \/ /\ ~CheckConnection
          /\ EndDrain(loc.errors)
          /\ hist' = [hist EXCEPT !.drain_fault = TRUE]
          /\ UNCHANGED <<log, inst_errq, session_valid>>
       \/ /\ CheckConnection
          /\ log' = Append(log, LogEntry("query", "SYST:ERR?", 0))
          /\ \/ LET reply == (IF inst_errq = <<>> THEN NoErrorText
                              ELSE Head(inst_errq)) \o <<LF>>
                    error_response == QueryResult(wrapper, reply)
                IN  /\ CanAnswer
                    /\ inst_errq' = IF inst_errq = <<>> THEN <<>> ELSE Tail(inst_errq)
                    /\ UNCHANGED session_valid
                    /\ IF IsNoErrorSentinel(error_response)
                       THEN /\ EndDrain(loc.errors)
                            /\ hist' = [hist EXCEPT !.drained = TRUE]
                       ELSE /\ loc' = [loc EXCEPT
                                         !.errors = Append(@, Rstrip(error_response))]
                            /\ UNCHANGED <<pc, hist, outcome, exc, ret>>
             \/ \E f \in Faults :
                /\ CanFail(f)
                /\ session_valid' = SessionAfterFault(f)
                /\ EndDrain(loc.errors)
                /\ hist' = [hist EXCEPT !.drain_fault = TRUE]
                /\ UNCHANGED inst_errq
    /\ UNCHANGED <<res_man, heap, held, inst_scan, wrapper, device, is_connected, timeout, inst_trig_sour, op, arg>>

----------------------------------------------------------------------------
(* The system *)

\* a wrapper constructed on a named resource: connected, instrument just reset
Init ==
    /\ wrapper \in {"KS34980A", "Daq970a"}
    /\ device = TRUE
    /\ is_connected = TRUE
    /\ session_valid = TRUE
    /\ timeout = DefaultTimeout(wrapper)
    /\ inst_trig_sour = S_IMM
    /\ inst_errq = <<>>
    /\ op = "__init__"
    /\ pc = "idle"
    /\ arg = NoArgs
    /\ loc = NoLoc
    /\ hist = [NoHist EXCEPT !.timeout0 = DefaultTimeout(wrapper)]
    /\ log = <<>>
    /\ outcome = "none"
    /\ exc = NoExc
    /\ ret = NoRet
    /\ res_man = TRUE
    /\ heap = NoHeap
    /\ held = <<>>
    /\ inst_scan = NoScan

Next ==
    \/ CallConfigure
    \/ WriteRoutOpenAll
    \/ QueryRoutScan
    \/ WriteRoutOpen
    \/ WriteRoutScan
    \/ WriteNplc
    \/ QueryNplc
    \/ WriteConfVoltDc
    \/ WriteTrigSour
    \/ WriteTrigTim
    \/ WriteTrigCoun
    \/ QueryConf
    \/ QueryTrigSour
    \/ QueryTrigTim
    \/ QueryTrigCoun
    \/ CallCheckErrors
    \/ QuerySystErr

Spec == Init /\ [][Next]_vars

\* the same system with an instrument whose CONF? reply may hold a malformed entry
NextConf ==
    \/ CallConfigure
    \/ WriteRoutOpenAll
    \/ QueryRoutScan
    \/ WriteRoutOpen
    \/ WriteRoutScan
    \/ WriteNplc
    \/ QueryNplc
    \/ WriteConfVoltDc
    \/ WriteTrigSour
    \/ WriteTrigTim
    \/ WriteTrigCoun
    \/ QueryConfAny
    \/ QueryTrigSour
    \/ QueryTrigTim
    \/ QueryTrigCoun
    \/ CallCheckErrors
    \/ QuerySystErr

SpecConf == Init /\ [][NextConf]_vars

----------------------------------------------------------------------------
(* Vocabulary of the properties *)

Cmds(l) == [i \in 1..Len(l) |-> l[i].cmd]
IsPrefix(a, b) == Len(a) <= Len(b) /\ SubSeq(b, 1, Len(a)) = a
Positions(l, cmd) == {i \in 1..Len(l) : l[i].cmd = cmd}

InConfigure == op = "configure_volt_dc"
Finished == pc = "idle" /\ outcome # "none"
Returned == pc = "idle" /\ outcome = "returned"
ConfigReturned == InConfigure /\ Returned /\ ret.kind = "config"

TrigWriteCmds == {"TRIG:SOUR TIM", "TRIG:SOUR IMM", "TRIG:TIM", "TRIG:COUN"}
IsTrigWrite(e) == e.kind = "write" /\ e.cmd \in TrigWriteCmds
IsTransportCall(e) == e.kind \in {"write", "query"}
IsNotWarning(e) == e.kind # "warn"
Warned == \E i \in 1..Len(log) : log[i].kind = "warn"

\* the trigger writes the call's arguments ask for
ExpectedTrigWrites ==
    IF arg.tup_trig_tim_cnt # <<>>
    THEN << LogEntry("write", "TRIG:SOUR TIM", 0),
            LogEntry("write", "TRIG:TIM", arg.tup_trig_tim_cnt[1]),
            LogEntry("write", "TRIG:COUN", arg.tup_trig_tim_cnt[2]) >>
    ELSE << LogEntry("write", "TRIG:SOUR IMM", 0) >>

\* the trigger block is behind the call: CONF? has been sent
PastTriggerBlock == Positions(log, "CONF?") # {}

\* the "Set timeout" block and the sufficiency check are behind the call
PastTimeoutBlock ==
    InConfigure /\ (pc = "drain" \/ (pc = "idle" /\ (hist.drained \/ hist.drain_fault)))

\* the drain ran to the "no error" reply: every SYST:ERR? was answered
DrainAnswered == pc = "idle" /\ hist.drained

----------------------------------------------------------------------------
(* C1 *)

\* C1: in configure_volt_dc of both wrappers the trigger writes of a call are, at
\* every moment, a prefix of <TRIG:SOUR TIM, TRIG:TIM interval, TRIG:COUN count>
\* when a trigger tuple is given and of <TRIG:SOUR IMM> when none is given; they
\* stand next to each other in the order of transport calls, and all of them have
\* been written once the call is past the trigger block.
C1_TriggerWriteOrder ==
    InConfigure =>
        LET tw == SelectSeq(log, IsTrigWrite)
            at == {i \in 1..Len(log) : IsTrigWrite(log[i])}
        IN  /\ IsPrefix(tw, ExpectedTrigWrites)
            /\ \A i \in at, j \in at : \A k \in i..j : k \in at
            /\ PastTriggerBlock => tw = ExpectedTrigWrites

\* a timed configuration of the 34980A that returned
C1_Witness ==
    /\ ConfigReturned
    /\ wrapper = "KS34980A"
    /\ arg.tup_trig_tim_cnt # <<>>
    /\ Len(SelectSeq(log, IsTrigWrite)) = 3

----------------------------------------------------------------------------
(* C2 *)

\* the commands and the timeout assignment of a KS34980A.configure_volt_dc call
\* with a channel spec, up to the error check
ExpectedKS ==
    <<"ROUT:OPEN:ALL", "ROUT:SCAN">>
    \o (IF arg.nplc # <<>> THEN <<"VOLT:DC:NPLC">> ELSE <<>>)
    \o <<"VOLT:DC:NPLC?", "CONF:VOLT:DC">>
    \o Cmds(ExpectedTrigWrites)
    \o <<"CONF?", "TRIG:SOUR?", "TRIG:TIM?", "TRIG:COUN?">>
    \o (IF arg.ms_timeout.kind # "None" THEN <<"device.timeout">> ELSE <<>>)

\* C2: a KS34980A.configure_volt_dc call with a channel spec issues, at every
\* moment, a prefix of: ROUT:OPEN:ALL, ROUT:SCAN, the NPLC write (only if a value
\* was given), the NPLC query, CONF:VOLT:DC, the trigger writes, CONF?, TRIG:SOUR?,
\* TRIG:TIM?, TRIG:COUN?, the timeout assignment (only if a timeout was given),
\* SYST:ERR?; a call that returns has issued all of them, SYST:ERR? last.
C2_ConfigureCommandOrder ==
    (InConfigure /\ wrapper = "KS34980A" /\ arg.str_channel # "None") =>
        LET issued == Cmds(SelectSeq(log, IsNotWarning))
        IN  /\ \/ IsPrefix(issued, ExpectedKS)
               \/ /\ IsPrefix(ExpectedKS, issued)
                  /\ \A i \in (Len(ExpectedKS) + 1)..Len(issued) : issued[i] = "SYST:ERR?"
            /\ Returned => issued = ExpectedKS \o <<"SYST:ERR?">>

\* a returned call with channel spec, NPLC value, trigger tuple and timeout
C2_Witness ==
    /\ ConfigReturned
    /\ wrapper = "KS34980A"
    /\ arg.str_channel # "None"
    /\ arg.nplc # <<>>
    /\ arg.tup_trig_tim_cnt # <<>>
    /\ arg.ms_timeout.kind = "AUTO"
    /\ Len(log) >= 14

----------------------------------------------------------------------------
(* C3, C4 *)

\* C3: KS34980A.configure_volt_dc whose final drain is answered up to the "no
\* error" reply and found at least one error queued: the call raises
\* KS34980AError, the message carries every error string that was queued, in
\* queue order, and nothing is returned.
C3_KsConfigureFailsOnQueuedErrors ==
    (InConfigure /\ wrapper = "KS34980A" /\ DrainAnswered /\ hist.errq0 # <<>>) =>
        /\ outcome = "raised"
        /\ exc.type = "KS34980AError"
        /\ exc.errors = hist.errq0
        /\ ret = NoRet

\* two different errors were queued when the drain began
C3_Witness ==
    /\ InConfigure /\ wrapper = "KS34980A" /\ DrainAnswered
    /\ Len(hist.errq0) = 2
    /\ hist.errq0[1] # hist.errq0[2]
    /\ outcome = "raised"

\* C4 (as claimed): Daq970a.configure_volt_dc whose final drain found at least
\* one error queued raises DAQ970AError and returns nothing.
C4_DaqConfigureFailsOnQueuedErrors ==
    (InConfigure /\ wrapper = "Daq970a" /\ DrainAnswered /\ hist.errq0 # <<>>) =>
        /\ outcome = "raised"
        /\ exc.type = "DAQ970AError"
        /\ ret = NoRet

----------------------------------------------------------------------------
(* C5 *)

\* C5: KS34980A.check_errors on a queue of k entries, every SYST:ERR? answered:
\* while the loop runs, the strings collected so far followed by the strings
\* still queued are the k strings, one query per string collected (so the loop
\* ends); the call then returns exactly the k strings in queue order after
\* exactly k+1 SYST:ERR? queries and no other transport call, and does not raise.
C5_CheckErrorsDrainsQueue ==
    /\ (wrapper = "KS34980A" /\ pc = "drain") =>
          /\ loc.errors \o inst_errq = hist.errq0
          /\ Cardinality(Positions(log, "SYST:ERR?")) = Len(loc.errors)
    /\ (wrapper = "KS34980A" /\ op = "check_errors" /\ DrainAnswered) =>
          /\ outcome = "returned"
          /\ ret.kind = "errors"
          /\ ret.errors = hist.errq0
          /\ Len(log) = Len(hist.errq0) + 1
          /\ \A i \in 1..Len(log) : log[i] = LogEntry("query", "SYST:ERR?", 0)
          /\ inst_errq = <<>>

\* check_errors returned two different errors
C5_Witness ==
    /\ wrapper = "KS34980A" /\ op = "check_errors" /\ DrainAnswered
    /\ Len(ret.errors) = 2
    /\ ret.errors[1] # ret.errors[2]
    /\ Len(log) = 3

----------------------------------------------------------------------------
(* C6, C7 *)

\* 1000 * (T + max(N)/50 + 3) * C milliseconds, in microseconds, for an interval
\* T in microseconds, NPLC values N in thousandths and a count C
DerivedTimeout(T, N, C) ==
    (T + (1000 * Max(Range(N))) \div 50 + 3 * 1000000) * C

\* C6: with ms_timeout = "AUTO" and a trigger tuple, once the "Set timeout" block
\* is behind the call the transport timeout is 1000 * (T + max(N)/50 + 3) * C ms
\* for the interval T, the count C and the NPLC list N the instrument reported,
\* whatever the caller requested; T = 0.1 s, C = 10, N = [1.0] give 31200 ms.
C6_AutoTimeoutFromReportedValues ==
    /\ (InConfigure /\ pc = "drain" /\ arg.ms_timeout.kind = "AUTO"
            /\ arg.tup_trig_tim_cnt # <<>>) =>
          timeout =
              DerivedTimeout(loc.trig_time, loc.list_nplc, loc.trig_count)
    /\ (ConfigReturned /\ arg.ms_timeout.kind = "AUTO"
            /\ arg.tup_trig_tim_cnt # <<>>) =>
          timeout =
              DerivedTimeout(ret.trig_time, ret.list_nplc, ret.trig_count)
    /\ calculated_timeout(100000, <<1000>>, 10) = 31200000

\* the instrument reported 0.1 s where 1.0 s was requested: 31200 ms
C6_Witness ==
    /\ ConfigReturned
    /\ arg.ms_timeout.kind = "AUTO"
    /\ arg.tup_trig_tim_cnt = <<1000000, 10>>
    /\ ret.trig_time = 100000
    /\ ret.trig_count = 10
    /\ arg.nplc # <<>> /\ arg.nplc[1] \notin Range(ret.list_nplc)
    /\ timeout = 31200000

\* C7 (as claimed): with ms_timeout = "AUTO" and no trigger tuple the timeout set
\* does not depend on the interval and count the instrument reports: it is the
\* value the "Set timeout" block gives for any other reported interval and count.
C7_ImmediateAutoTimeoutIsFixed ==
    (InConfigure /\ pc = "drain" /\ arg.ms_timeout.kind = "AUTO"
        /\ arg.tup_trig_tim_cnt = <<>>) =>
        \A t \in TrigTimes, c \in TrigCounts :
            timeout = TimeoutAfter(arg.ms_timeout, t, loc.list_nplc, c, hist.timeout0)

\* C7 (amended): with ms_timeout = "AUTO" and no trigger tuple the timeout is set
\* by the same formula as for timed triggering, 1000 * (T + max(N)/50 + 3) * C ms,
\* from the interval, count and NPLC list the instrument reported.
C7_ImmediateAutoTimeoutFromReportedValues ==
    /\ (InConfigure /\ pc = "drain" /\ arg.ms_timeout.kind = "AUTO"
            /\ arg.tup_trig_tim_cnt = <<>>) =>
          /\ loc.trig_source = S_IMM
          /\ timeout =
               DerivedTimeout(loc.trig_time, loc.list_nplc, loc.trig_count)
    /\ (ConfigReturned /\ arg.ms_timeout.kind = "AUTO"
            /\ arg.tup_trig_tim_cnt = <<>>) =>
          /\ ret.trig_source = S_IMM
          /\ timeout =
               DerivedTimeout(ret.trig_time, ret.list_nplc, ret.trig_count)

\* immediate triggering, the instrument reporting 1.0 s and 10: 40200 ms
C7_Witness ==
    /\ ConfigReturned
    /\ arg.ms_timeout.kind = "AUTO"
    /\ arg.tup_trig_tim_cnt = <<>>
    /\ ret.trig_source = S_IMM
    /\ ret.trig_time = 1000000
    /\ ret.trig_count = 10
    /\ timeout = 40200000

----------------------------------------------------------------------------
(* C8 *)

\* C8: configure_volt_dc with ms_timeout = None leaves the transport timeout, at
\* every moment of the call and however the call ends, as it was when the call
\* began; with a numeric ms_timeout the timeout is as it was until the "Set
\* timeout" block and exactly the given value from then on.
C8_ExplicitAndAbsentTimeout ==
    InConfigure =>
        /\ arg.ms_timeout.kind = "None" => timeout = hist.timeout0
        /\ arg.ms_timeout.kind = "num" =>
              timeout = IF PastTimeoutBlock THEN arg.ms_timeout.v ELSE hist.timeout0

\* a call without ms_timeout returned and the timeout an earlier call derived
\* is still in place
C8_Witness ==
    /\ ConfigReturned
    /\ arg.ms_timeout.kind = "None"
    /\ timeout = 31200000
    /\ timeout # DefaultTimeout(wrapper)

----------------------------------------------------------------------------
(* C9, C10 *)

\* C9: in configure_volt_dc with timed triggering, a transport timeout below
\* 1000 * interval * count ms (interval and count as reported) makes the call
\* warn; the warning does not end the call: the error check follows it, and with
\* an empty error queue and every SYST:ERR? answered the call returns the
\* applied configuration.
C9_InsufficientTimeoutWarns ==
    /\ (InConfigure /\ pc = "drain" /\ loc.trig_source = S_TIM
            /\ timeout < loc.trig_time * loc.trig_count) => Warned
    /\ (ConfigReturned /\ ret.trig_source = S_TIM
            /\ timeout < ret.trig_time * ret.trig_count) => Warned
    /\ (InConfigure /\ Warned) =>
          \/ pc = "drain"
          \/ /\ pc = "idle"
             /\ \E i \in Positions(log, "timeout insufficient") :
                   \E j \in Positions(log, "SYST:ERR?") : i < j
    /\ (InConfigure /\ Warned /\ DrainAnswered /\ hist.errq0 = <<>>) =>
          /\ outcome = "returned"
          /\ ret.kind = "config"

\* timeout 500 ms, interval 1.0 s, count 10: warned and returned
C9_Witness ==
    /\ ConfigReturned
    /\ ret.trig_source = S_TIM
    /\ timeout = 500000
    /\ ret.trig_time = 1000000
    /\ ret.trig_count = 10
    /\ Warned

\* C10 (as claimed): in both wrappers, when the applied trigger source is
\* immediate, whether the call warns does not depend on the interval and count
\* the instrument reports: the timeout is compared with a fixed estimate.
C10_ImmediateEstimateIsFixed ==
    (InConfigure /\ pc = "drain" /\ loc.trig_source = S_IMM) =>
        \A t \in TrigTimes, c \in TrigCounts :
            Warned <=> TimeoutInsufficient(wrapper, timeout, loc.trig_source, t, c)

----------------------------------------------------------------------------
(* measure and get_raw_data: inputs *)

\* the scan list sizes and trigger counts the instrument is configured with; it
\* reports them to ROUT:SCAN:SIZE? and TRIG:COUN?, read by int(...) and int(float(...))
ScanSizes == {1, 2}
ReadTrigCounts == {1, 3}

\* READ? replies: 1, 2, 3 and 6 readings, and one reply with a token that is no number
ReadReplies ==
    { <<"7", LF>>,
      <<"1", ",", "5", LF>>,
      <<"1", ",", "2", ",", "3", LF>>,
      <<"1", ",", "5", ",", "2", ",", "7", ",", "3", ",", "9", LF>>,
      <<"1", ",", "x", LF>> }

\* how many elements of the vectors it holds the caller has overwritten at most
MaxWrites == 1

----------------------------------------------------------------------------
(* measure and get_raw_data: parsing, arrays and statistics *)

\* np.array(str_read.split(","), dtype=float) does not raise ValueError
CanParse(str_read) ==
    LET tokens == Split(str_read, ",")
    IN  \A i \in 1..Len(tokens) : IsNumber(tokens[i])

\* vec_read = np.array(str_read.split(","), dtype=float): the values
vec_read(str_read) ==
    LET tokens == Split(str_read, ",")
    IN  [i \in 1..Len(tokens) |-> Float(tokens[i])]

\* An array is a window on a buffer: element (i, j), 0-based, of a matrix is the
\* buffer's element off + i * strides[1] + j * strides[2].
\* a new contiguous vector of n values on buffer b
NewArray(b, n) == [buf |-> b, off |-> 0, shape |-> <<n>>, strides |-> <<1>>]

\* slip: a reply longer than the shape asks for is cut, not refused
CanReshape_truncates(a, r, c) == a.shape[1] >= r * c

\* ndarray.reshape((r, c)) of a contiguous vector does not raise ValueError
CanReshape(a, r, c) == a.shape[1] = r * c

\* ndarray.reshape((r, c)) of a contiguous vector: row-major, no copy
reshape(a, r, c) == [a EXCEPT !.shape = <<r, c>>, !.strides = <<c, 1>>]

\* ndarray.T: no copy
transpose(a) ==
    [a EXCEPT !.shape = <<a.shape[2], a.shape[1]>>,
              !.strides = <<a.strides[2], a.strides[1]>>]

\* slip: reshaped to channels x triggers directly, without the transposition
mat_read_untransposed(a, num_triggers, num_channels) ==
    reshape(a, num_channels, num_triggers)

\* get_raw_data: mat_read = vec_read.reshape((num_triggers, num_channels)).T
mat_read(a, num_triggers, num_channels) ==
    transpose(reshape(a, num_triggers, num_channels))

\* slip: as above, in measure
measure_mat_read_untransposed(a, num_triggers, num_channels) ==
    reshape(a, num_channels, num_triggers)

\* measure: mat_read = vec_read.reshape((num_triggers, num_channels)).T
measure_mat_read(a, num_triggers, num_channels) ==
    transpose(reshape(a, num_triggers, num_channels))

\* for channel_data in mat_read: row i (0-based) of a matrix, a window on its buffer
Row(m, i) ==
    [buf |-> m.buf, off |-> m.off + i * m.strides[1],
     shape |-> <<m.shape[2]>>, strides |-> <<m.strides[2]>>]

Rows(m) == [i \in 1..m.shape[1] |-> Row(m, i - 1)]

\* the values a vector shows, with the buffers as in h
Values(h, v) ==
    [k \in 1..v.shape[1] |-> h[v.buf][v.off + (k - 1) * v.strides[1] + 1]]

\* the buffers h with buffer b holding vals
Store(h, b, vals) ==
    [x \in DOMAIN h \cup {b} |-> IF x = b THEN vals ELSE h[x]]

\* the id of a buffer not among D: the smallest
NewBuffer(D) ==
    CHOOSE x \in 1..(Cardinality(D) + 1) : x \notin D /\ \A y \in 1..(x - 1) : y \in D

\* slip: the window handed out as it is, no copy made
copy_returns_view(h, v) == [heap |-> h, array |-> v]

\* channel_data.copy(): a new buffer holding the values of the window
copy(h, v) ==
    LET b == NewBuffer(DOMAIN h)
    IN  [heap |-> Store(h, b, Values(h, v)), array |-> NewArray(b, v.shape[1])]

\* [channel_data.copy() for channel_data in mat_read]
RECURSIVE CopyRows(_, _)
CopyRows(h, rows) ==
    IF rows = <<>> THEN [heap |-> h, arrays |-> <<>>]
    ELSE LET first == copy(h, Head(rows))
             rest == CopyRows(first.heap, Tail(rows))
         IN  [heap |-> rest.heap, arrays |-> <<first.array>> \o rest.arrays]

\* exact numbers: n/d in lowest terms, for n >= 0 and d > 0
RECURSIVE GCD(_, _)
GCD(a, b) == IF b = 0 THEN a ELSE GCD(b, a % b)

Frac(n, d) == LET g == GCD(n, d) IN [num |-> n \div g, den |-> d \div g]

\* what numpy gives for 0/0
NaN == [num |-> 0, den |-> 0]

RECURSIVE Sum(_)
Sum(x) == IF x = <<>> THEN 0 ELSE Head(x) + Sum(Tail(x))

\* np.mean(x)
np_mean(x) == Frac(Sum(x), Len(x))

\* np.std(x, ddof=ddof), given by its square:
\* sum((x_i - mean)^2) / (n - ddof) = sum((n * x_i - sum(x))^2) / (n * n * (n - ddof))
np_std(x, ddof) ==
    LET n == Len(x)
        dev == [i \in 1..n |-> (n * x[i] - Sum(x)) * (n * x[i] - Sum(x))]
    IN  IF n - ddof <= 0 THEN NaN
        ELSE Frac(Sum(dev), n * n * (n - ddof))

\* measure, the loop body: what is appended to list_mean
channel_mean(channel_data) ==
    IF Len(channel_data) = 1 THEN Frac(channel_data[1], 1)
    ELSE np_mean(channel_data)

\* slip: the single-sample case not told apart
channel_std_no_single_case(channel_data) == np_std(channel_data, 1)

\* slip: the population standard deviation, ddof left at 0
channel_std_population(channel_data) ==
    IF Len(channel_data) = 1 THEN Frac(0, 1)
    ELSE np_std(channel_data, 0)

\* measure, the loop body: what is appended to list_std (given by its square)
channel_std(channel_data) ==
    IF Len(channel_data) = 1 THEN Frac(0, 1)
    ELSE np_std(channel_data, 1)

----------------------------------------------------------------------------
(* measure and get_raw_data: the steps *)

AcqOps == {"measure", "get_raw_data"}

\* what the call has received so far: the replies, and how many queries were answered
NoInp == [str_read |-> <<>>, answered |-> 0]
\* the call before the current one, kept for the properties
NoPrev == [op |-> "none", outcome |-> "none", ret |-> NoRet, inp |-> NoInp]
\* the locals of measure and get_raw_data
NoAcqLoc == [num_channels |-> 0, num_triggers |-> 0]

\* the message the except clause of the method puts in front
AcqFailChain(o) ==
    IF o = "measure" THEN <<"Measurement failed">> ELSE <<"Raw data acquisition failed">>

\* the buffers the vectors of results refer to
Referenced(results) ==
    UNION {{results[r][c].array.buf : c \in 1..Len(results[r])} : r \in 1..Len(results)}

\* the buffers of h still referred to; the others are garbage and are gone
Live(h, results) == [b \in DOMAIN h \cap Referenced(results) |-> h[b]]

\* the call measure() or get_raw_data(), up to the first query
CallAcquire(o) ==
    /\ pc = "idle"
    /\ op' = o
    /\ arg' = NoArgs
    /\ log' = <<>>
    /\ hist' = [prev |-> [op |-> op, outcome |-> outcome, ret |-> ret,
                          inp |-> IF op \in AcqOps THEN hist.inp ELSE NoInp],
                conn0 |-> [is_connected |-> is_connected, device |-> device,
                           timeout |-> timeout],
                inp |-> NoInp]
    /\ IF CheckConnection
       THEN /\ pc' = "size_q"
            /\ outcome' = "none"
            /\ exc' = NoExc
            /\ ret' = NoRet
            /\ loc' = NoAcqLoc
       ELSE Raise(<<"Device is not connected">>, <<>>)
    /\ UNCHANGED <<res_man, heap, held, inst_scan, wrapper, device, is_connected, session_valid,
                   timeout, inst_trig_sour, inst_errq>>

CallMeasure == CallAcquire("measure")

CallGetRawData == CallAcquire("get_raw_data")

\* an answered self.query(cmd) of measure or get_raw_data, the reply kept in newinp
AcqQueryOk(cmd, next, newloc, newinp) ==
    /\ CheckConnection
    /\ CanAnswer
    /\ log' = Append(log, LogEntry("query", cmd, 0))
    /\ loc' = newloc
    /\ hist' = [hist EXCEPT !.inp = newinp]
    /\ pc' = next
    /\ UNCHANGED <<res_man, heap, held, inst_scan, wrapper, device, is_connected, session_valid,
                   timeout, inst_trig_sour, inst_errq, op, arg, outcome, exc, ret>>

\* slip: the trigger count not asked for, one trigger taken for granted
QueryNumChannels_skips_trigger_query ==
    /\ op \in AcqOps
    /\ pc = "size_q"
    /\ \/ AcqQueryOk("ROUT:SCAN:SIZE?", "read_q",
                     [loc EXCEPT !.num_channels = inst_scan.size, !.num_triggers = 1],
                     [hist.inp EXCEPT !.answered = 2])
       \/ CfgQueryFails("ROUT:SCAN:SIZE?", AcqFailChain(op))

\* num_channels = int(self.query("ROUT:SCAN:SIZE?").rstrip())
QueryNumChannels ==
    /\ op \in AcqOps
    /\ pc = "size_q"
    /\ \/ AcqQueryOk("ROUT:SCAN:SIZE?", "trig_q",
                     [loc EXCEPT !.num_channels = inst_scan.size],
                     [hist.inp EXCEPT !.answered = 1])
       \/ CfgQueryFails("ROUT:SCAN:SIZE?", AcqFailChain(op))

\* num_triggers = int(float(self.query("TRIG:COUN?").rstrip()))
QueryNumTriggers ==
    /\ op \in AcqOps
    /\ pc = "trig_q"
    /\ \/ AcqQueryOk("TRIG:COUN?", "read_q",
                     [loc EXCEPT !.num_triggers = inst_scan.count],
                     [hist.inp EXCEPT !.answered = 2])
       \/ CfgQueryFails("TRIG:COUN?", AcqFailChain(op))

\* measure, after the reshape: the statistics of every channel are returned; the
\* arrays of the call are garbage
ReturnStats(h, m) ==
    /\ outcome' = "returned"
    /\ exc' = NoExc
    /\ ret' = [kind |-> "stats",
               list_mean |-> [i \in 1..Len(Rows(m)) |->
                                 channel_mean(Values(h, Rows(m)[i]))],
               list_std |-> [i \in 1..Len(Rows(m)) |->
                                channel_std(Values(h, Rows(m)[i]))]]
    /\ loc' = NoLoc
    /\ pc' = "idle"
    /\ UNCHANGED <<heap, held>>

\* get_raw_data, after the reshape: the copies of the rows are returned; the caller
\* keeps the result and lets go of the result before the last
ReturnRaw(h, m) ==
    LET copies == CopyRows(h, Rows(m))
        values == [i \in 1..Len(copies.arrays) |-> Values(copies.heap, copies.arrays[i])]
        result == [i \in 1..Len(copies.arrays) |->
                      [array |-> copies.arrays[i], expect |-> values[i]]]
        kept == IF Len(held) = 2 THEN <<held[2], result>> ELSE Append(held, result)
    IN  /\ outcome' = "returned"
        /\ exc' = NoExc
        /\ ret' = [kind |-> "raw", values |-> values]
        /\ loc' = NoLoc
        /\ pc' = "idle"
        /\ held' = kept
        /\ heap' = Live(copies.heap, kept)

\* str_read = self.query("READ?") and the rest of the method
QueryRead ==
    /\ op \in AcqOps
    /\ pc = "read_q"
    /\ \/ \E r \in ReadReplies :
            LET str_read == QueryResult(wrapper, r)
                b == NewBuffer(DOMAIN heap)
            IN  /\ CheckConnection
                /\ CanAnswer
                /\ log' = Append(log, LogEntry("query", "READ?", 0))
                /\ hist' = [hist EXCEPT !.inp.str_read = str_read, !.inp.answered = 3]
                /\ IF ~CanParse(str_read)
                   THEN /\ Raise(AcqFailChain(op) \o <<"ValueError">>, <<>>)
                        /\ UNCHANGED <<heap, held>>
                   ELSE LET h == Store(heap, b, vec_read(str_read))
                            a == NewArray(b, Len(vec_read(str_read)))
                        IN  IF ~CanReshape(a, loc.num_triggers, loc.num_channels)
                            THEN /\ Raise(AcqFailChain(op) \o <<"ValueError">>, <<>>)
                                 /\ UNCHANGED <<heap, held>>
                            ELSE IF op = "measure"
                                 THEN ReturnStats(h, measure_mat_read(
                                          a, loc.num_triggers, loc.num_channels))
                                 ELSE ReturnRaw(h, mat_read(
                                          a, loc.num_triggers, loc.num_channels))
                /\ UNCHANGED <<res_man, inst_scan, wrapper, device, is_connected,
                               session_valid, timeout, inst_trig_sour, inst_errq, op,
                               arg>>
       \/ CfgQueryFails("READ?", AcqFailChain(op))

\* the vectors the caller holds and has overwritten an element of
Overwritten(results) ==
    UNION { UNION { {<<r, c, t>> : t \in {k \in 1..Len(results[r][c].expect) :
                                              results[r][c].expect[k] < 0}} :
                    c \in 1..Len(results[r]) } : r \in 1..Len(results) }

\* the caller, between calls: it overwrites one element of a vector it holds (with
\* the negative of the element, which no reply contains)
CallerModifies ==
    /\ pc = "idle"
    /\ Cardinality(Overwritten(held)) < MaxWrites
    /\ \E r \in 1..Len(held) : \E c \in 1..Len(held[r]) :
          \E t \in 1..held[r][c].array.shape[1] :
             LET v == held[r][c].array
                 at == v.off + (t - 1) * v.strides[1] + 1
             IN  /\ heap[v.buf][at] > 0
                 /\ heap' = [heap EXCEPT ![v.buf][at] = 0 - @]
                 /\ held' = [held EXCEPT ![r][c].expect[t] = 0 - @]
    /\ UNCHANGED <<res_man, inst_scan, wrapper, device, is_connected, session_valid,
                   timeout, inst_trig_sour, inst_errq, op, pc, arg, loc, hist, log,
                   outcome, exc, ret>>

\* a connected wrapper on a configured instrument, nothing measured yet
InitAcq ==
    /\ wrapper \in {"KS34980A", "Daq970a"}
    /\ device = TRUE
    /\ is_connected = TRUE
    /\ session_valid = TRUE
    /\ timeout = DefaultTimeout(wrapper)
    /\ inst_trig_sour = S_IMM
    /\ inst_errq = <<>>
    /\ op = "__init__"
    /\ pc = "idle"
    /\ arg = NoArgs
    /\ loc = NoLoc
    /\ hist = [prev |-> NoPrev,
               conn0 |-> [is_connected |-> TRUE, device |-> TRUE,
                          timeout |-> DefaultTimeout(wrapper)],
               inp |-> NoInp]
    /\ log = <<>>
    /\ outcome = "none"
    /\ exc = NoExc
    /\ ret = NoRet
    /\ res_man = TRUE
    /\ heap = NoHeap
    /\ held = <<>>
    /\ inst_scan \in [size : ScanSizes, count : ReadTrigCounts]

NextAcq ==
    \/ CallMeasure
    \/ CallGetRawData
    \/ QueryNumChannels
    \/ QueryNumTriggers
    \/ QueryRead
    \/ CallerModifies

SpecAcq == InitAcq /\ [][NextAcq]_vars

----------------------------------------------------------------------------
(* Vocabulary of the acquisition properties *)

NumChannels == inst_scan.size
NumTriggers == inst_scan.count

\* the call at hand is an acquisition whose three queries were all answered
AcqAnswered == op \in AcqOps /\ pc = "idle" /\ hist.inp.answered = 3

\* the number of comma-separated tokens of a reply
TokenCount(str_read) == Len(Split(str_read, ","))

\* a READ? reply of numbers, as many as channels times triggers
WellFormed(str_read) ==
    /\ CanParse(str_read)
    /\ TokenCount(str_read) = NumChannels * NumTriggers

\* the reading of channel c at trigger t (both 0-based): flat index t * C + c
Reading(str_read, c, t) == vec_read(str_read)[t * NumChannels + c + 1]

\* the readings of channel c (0-based) in trigger order
ChannelReadings(str_read, c) ==
    [k \in 1..NumTriggers |-> Reading(str_read, c, k - 1)]

\* m is the arithmetic mean of x
IsMeanOf(m, x) == m.den > 0 /\ m.num * Len(x) = m.den * Sum(x)

\* sd, given by its square, is the standard deviation of x about the mean m with
\* divisor Len(x) - 1
IsSampleStdOf(sd, m, x) ==
    LET dev == [i \in 1..Len(x) |-> (x[i] * m.den - m.num) * (x[i] * m.den - m.num)]
    IN  /\ sd.den > 0
        /\ sd.num * (Len(x) - 1) * m.den * m.den = sd.den * Sum(dev)

----------------------------------------------------------------------------
(* C11 *)

\* C11: get_raw_data whose three queries were answered, the READ? reply holding
\* exactly C * T numbers for the channel count C and trigger count T the instrument
\* reported: the call returns C vectors of length T, and vector c at position t is
\* the reply's value at flat index t * C + c; this holds for C = 1 as well.
C11_RawDataIsChannelMajor ==
    (AcqAnswered /\ op = "get_raw_data" /\ WellFormed(hist.inp.str_read)) =>
        /\ outcome = "returned"
        /\ ret.kind = "raw"
        /\ Len(ret.values) = NumChannels
        /\ \A c \in 0..(NumChannels - 1) :
              /\ Len(ret.values[c + 1]) = NumTriggers
              /\ \A t \in 0..(NumTriggers - 1) :
                    ret.values[c + 1][t + 1] = Reading(hist.inp.str_read, c, t)

\* two channels, three triggers, the reply 1,5,2,7,3,9
C11_Witness ==
    /\ AcqAnswered /\ op = "get_raw_data"
    /\ NumChannels = 2 /\ NumTriggers = 3
    /\ ret.kind = "raw"
    /\ ret.values = << <<1, 2, 3>>, <<5, 7, 9>> >>

----------------------------------------------------------------------------
(* C12 *)

\* the previous call was an acquisition that got a READ? reply which is not well formed
PrevMalformed ==
    /\ hist.prev.op \in AcqOps
    /\ hist.prev.inp.answered = 3
    /\ ~WellFormed(hist.prev.inp.str_read)

\* C12: measure or get_raw_data whose READ? reply holds a token that is no number, or
\* not C * T tokens, raises the wrapper's error and returns nothing, with the
\* connected flag, the device handle and the transport timeout as they were when
\* the call began; a measure() that follows such a call and gets a well-formed
\* reply returns the statistics.
C12_MalformedReplyFailsAndLeavesConnection ==
    /\ (AcqAnswered /\ ~WellFormed(hist.inp.str_read)) =>
          /\ outcome = "raised"
          /\ exc.type = ErrorOf(wrapper)
          /\ ret = NoRet
          /\ is_connected = hist.conn0.is_connected
          /\ device = hist.conn0.device
          /\ timeout = hist.conn0.timeout
    /\ (AcqAnswered /\ op = "measure" /\ PrevMalformed
            /\ WellFormed(hist.inp.str_read)) =>
          /\ outcome = "returned"
          /\ ret.kind = "stats"

\* a measure() that returned right after a call that failed on its reply
C12_Witness ==
    /\ AcqAnswered /\ op = "measure"
    /\ PrevMalformed
    /\ hist.prev.outcome = "raised"
    /\ ~CanParse(hist.prev.inp.str_read)
    /\ outcome = "returned"
    /\ is_connected /\ device

----------------------------------------------------------------------------
(* C13, C14 *)

\* C13: measure with trigger count 1 and a well-formed reply returns, for every
\* channel, the single sample as the mean and exactly 0 as the standard
\* deviation (no 0/0), for any channel count.
C13_SingleSampleStatistics ==
    (AcqAnswered /\ op = "measure" /\ WellFormed(hist.inp.str_read)
        /\ NumTriggers = 1) =>
        /\ outcome = "returned"
        /\ Len(ret.list_mean) = NumChannels
        /\ Len(ret.list_std) = NumChannels
        /\ \A c \in 0..(NumChannels - 1) :
              /\ ret.list_mean[c + 1] =
                     [num |-> Reading(hist.inp.str_read, c, 0), den |-> 1]
              /\ ret.list_std[c + 1] = [num |-> 0, den |-> 1]

\* two channels, one trigger, the reply 1,5
C13_Witness ==
    /\ AcqAnswered /\ op = "measure"
    /\ NumChannels = 2 /\ NumTriggers = 1
    /\ outcome = "returned"
    /\ ret.list_mean = << [num |-> 1, den |-> 1], [num |-> 5, den |-> 1] >>
    /\ ret.list_std = << [num |-> 0, den |-> 1], [num |-> 0, den |-> 1] >>

\* C14: measure with trigger count T > 1 and a well-formed reply returns, per
\* channel, the arithmetic mean of the channel's T samples and the standard
\* deviation with divisor T - 1 (samples 1, 2, 3 give mean 2 and deviation 1).
C14_MeanAndSampleStd ==
    (AcqAnswered /\ op = "measure" /\ WellFormed(hist.inp.str_read)
        /\ NumTriggers > 1) =>
        /\ outcome = "returned"
        /\ Len(ret.list_mean) = NumChannels
        /\ Len(ret.list_std) = NumChannels
        /\ \A c \in 0..(NumChannels - 1) :
              LET x == ChannelReadings(hist.inp.str_read, c)
              IN  /\ IsMeanOf(ret.list_mean[c + 1], x)
                  /\ IsSampleStdOf(ret.list_std[c + 1], ret.list_mean[c + 1], x)

\* one channel, the samples 1, 2, 3: mean 2, standard deviation 1
C14_Witness ==
    /\ AcqAnswered /\ op = "measure"
    /\ NumChannels = 1 /\ NumTriggers = 3
    /\ outcome = "returned"
    /\ ChannelReadings(hist.inp.str_read, 0) = <<1, 2, 3>>
    /\ ret.list_mean = << [num |-> 2, den |-> 1] >>
    /\ ret.list_std = << [num |-> 1, den |-> 1] >>

----------------------------------------------------------------------------
(* C15 *)

\* the previous call was a get_raw_data that returned, on the same READ? reply as
\* the call at hand (channel and trigger count are the instrument's, hence the same)
PrevRawOnSameReply ==
    /\ hist.prev.op = "get_raw_data"
    /\ hist.prev.outcome = "returned"
    /\ hist.prev.ret.kind = "raw"
    /\ hist.prev.inp.str_read = hist.inp.str_read

\* C15: a measure() that follows a get_raw_data() and is given the same reply,
\* channel count and trigger count returns as many means and deviations as
\* get_raw_data returned vectors, and in the same order each mean is the mean of
\* that vector and each deviation its sample standard deviation (0 for one sample).
C15_MeasureAgreesWithRawData ==
    (AcqAnswered /\ op = "measure" /\ PrevRawOnSameReply) =>
        /\ outcome = "returned"
        /\ Len(ret.list_mean) = Len(hist.prev.ret.values)
        /\ Len(ret.list_std) = Len(hist.prev.ret.values)
        /\ \A c \in 1..Len(hist.prev.ret.values) :
              LET x == hist.prev.ret.values[c]
              IN  /\ IsMeanOf(ret.list_mean[c], x)
                  /\ IF Len(x) = 1 THEN ret.list_std[c] = [num |-> 0, den |-> 1]
                     ELSE IsSampleStdOf(ret.list_std[c], ret.list_mean[c], x)

\* two channels, three triggers: means 2 and 7, deviations 1 and 2
C15_Witness ==
    /\ AcqAnswered /\ op = "measure" /\ PrevRawOnSameReply
    /\ hist.prev.ret.values = << <<1, 2, 3>>, <<5, 7, 9>> >>
    /\ outcome = "returned"
    /\ ret.list_mean = << [num |-> 2, den |-> 1], [num |-> 7, den |-> 1] >>
    /\ ret.list_std = << [num |-> 1, den |-> 1], [num |-> 4, den |-> 1] >>

----------------------------------------------------------------------------
(* C16 *)

\* the vectors the caller holds, as (result, channel) pairs
HeldVectors ==
    UNION {{<<r, c>> : c \in 1..Len(held[r])} : r \in 1..Len(held)}

\* C16: every vector get_raw_data returned is a buffer of its own, whole and shared
\* with no other vector of the same or of another result; what the caller writes
\* into one vector shows in that vector only, so every vector holds what was
\* returned in it apart from the caller's own writes to it, across later calls
\* too; and no buffer stays alive but those of the vectors the caller holds.
C16_RawVectorsAreIndependentCopies ==
    /\ \A p \in HeldVectors :
          LET v == held[p[1]][p[2]]
          IN  /\ v.array.buf \in DOMAIN heap
              /\ v.array.off = 0
              /\ v.array.strides = <<1>>
              /\ v.array.shape = <<Len(heap[v.array.buf])>>
              /\ Values(heap, v.array) = v.expect
    /\ \A p \in HeldVectors, q \in HeldVectors :
          p # q => held[p[1]][p[2]].array.buf # held[q[1]][q[2]].array.buf
    /\ DOMAIN heap = Referenced(held)

\* the caller holds two results of two channels and has overwritten one element of
\* one vector of the later result
C16_Witness ==
    /\ pc = "idle"
    /\ Len(held) = 2
    /\ Len(held[1]) = 2 /\ Len(held[2]) = 2
    /\ Overwritten(held) = {<<2, 1, 2>>}
    /\ Values(heap, held[2][1].array) = <<1, -2, 3>>
    /\ Values(heap, held[2][2].array) = <<5, 7, 9>>
    /\ Values(heap, held[1][1].array) = <<1, 2, 3>>
    /\ op = "measure" /\ outcome = "returned"

----------------------------------------------------------------------------
(* list_of_channels (src/module_daq970a.py), a function of the module *)

\* the longest channel spec handed to list_of_channels
MaxChanLen == 4

\* the characters of the channel specs: digits, the separator, a letter
ChanChars == {"1", "2", ":", "x"}
ChanSpecs == UNION {[1..n -> ChanChars] : n \in 0..MaxChanLen}

\* int(token) does not raise ValueError: over the characters of the model, a
\* decimal number
CanInt(token) ==
    LET t == Strip(token)
    IN  t # <<>> /\ \A i \in 1..Len(t) : t[i] \in Digits

\* int(token)
int(token) == IntOf(Strip(token))

\* list(range(lo, hi))
range(lo, hi) == [i \in 1..(hi - lo) |-> lo + i - 1]

\* slip: the end of the range left out, range(A, B) for range(A, B + 1)
list_of_channels_exclusive(str_chan) ==
    LET list_num == Split(str_chan, ":")
    IN  IF Len(list_num) = 1
        THEN IF CanInt(list_num[1])
             THEN [raised |-> FALSE, value |-> <<int(list_num[1])>>]
             ELSE [raised |-> TRUE, value |-> <<>>]
        ELSE IF Len(list_num) > 2 THEN [raised |-> TRUE, value |-> <<>>]
        ELSE IF ~CanInt(list_num[1]) \/ ~CanInt(list_num[2])
             THEN [raised |-> TRUE, value |-> <<>>]
             ELSE [raised |-> FALSE,
                   value |-> range(int(list_num[1]), int(list_num[2]))]

\* list_of_channels(str_chan): the list returned, or ValueError raised
list_of_channels(str_chan) ==
    LET list_num == Split(str_chan, ":")
    IN  IF Len(list_num) = 1
        THEN IF CanInt(list_num[1])
             THEN [raised |-> FALSE, value |-> <<int(list_num[1])>>]
             ELSE [raised |-> TRUE, value |-> <<>>]
        ELSE IF Len(list_num) > 2 THEN [raised |-> TRUE, value |-> <<>>]
        ELSE IF ~CanInt(list_num[1]) \/ ~CanInt(list_num[2])
             THEN [raised |-> TRUE, value |-> <<>>]
             ELSE [raised |-> FALSE,
                   value |-> range(int(list_num[1]), int(list_num[2]) + 1)]

\* the call list_of_channels(arg.str_chan)
CallListOfChannels ==
    /\ op = "list_of_channels"
    /\ pc = "call"
    /\ LET res == list_of_channels(arg.str_chan)
       IN  IF res.raised
           THEN /\ outcome' = "raised"
                /\ exc' = [NoExc EXCEPT !.type = "ValueError"]
                /\ ret' = NoRet
           ELSE /\ outcome' = "returned"
                /\ exc' = NoExc
                /\ ret' = [kind |-> "list", list |-> res.value]
    /\ pc' = "idle"
    /\ UNCHANGED <<res_man, heap, held, inst_scan, wrapper, device, is_connected,
                   session_valid, timeout, inst_trig_sour, inst_errq, op, arg, loc,
                   hist, log>>

\* no wrapper object is involved: the function is about to be applied to a spec
InitChan ==
    /\ wrapper = "none"
    /\ device = FALSE
    /\ is_connected = FALSE
    /\ session_valid = FALSE
    /\ timeout = 0
    /\ inst_trig_sour = S_IMM
    /\ inst_errq = <<>>
    /\ inst_scan = NoScan
    /\ op = "list_of_channels"
    /\ pc = "call"
    /\ arg \in [str_chan : ChanSpecs]
    /\ loc = NoLoc
    /\ hist = NoHist
    /\ log = <<>>
    /\ outcome = "none"
    /\ exc = NoExc
    /\ ret = NoRet
    /\ res_man = FALSE
    /\ heap = NoHeap
    /\ held = <<>>

NextChan == CallListOfChannels

SpecChan == InitChan /\ [][NextChan]_vars

----------------------------------------------------------------------------
(* C17, C18 *)

\* the channel spec of the call, the places of its colons and its two sides
ChanSpec == arg.str_chan
Colons == {i \in 1..Len(ChanSpec) : ChanSpec[i] = ":"}
IsDecimal(t) == t # <<>> /\ \A i \in 1..Len(t) : t[i] \in Digits
LeftOfColon == SubSeq(ChanSpec, 1, (CHOOSE i \in Colons : TRUE) - 1)
RightOfColon == SubSeq(ChanSpec, (CHOOSE i \in Colons : TRUE) + 1, Len(ChanSpec))
\* the spec is a single decimal / a pair of decimals around one colon
IsSingle == Colons = {} /\ IsDecimal(ChanSpec)
IsPair == Cardinality(Colons) = 1 /\ IsDecimal(LeftOfColon) /\ IsDecimal(RightOfColon)
ChanCalled == op = "list_of_channels" /\ pc = "idle"

\* C17: list_of_channels returns [A] for a single decimal A; for "A:B" with A <= B
\* it returns the list A, A+1, ..., B: B-A+1 entries, strictly increasing; for a
\* spec with more than two colon-separated tokens or a token that is no number it
\* raises and returns no list.
C17_ListOfChannels ==
    ChanCalled =>
        /\ IsSingle =>
              /\ outcome = "returned"
              /\ ret.list = <<IntOf(ChanSpec)>>
        /\ (IsPair /\ IntOf(LeftOfColon) <= IntOf(RightOfColon)) =>
              /\ outcome = "returned"
              /\ Len(ret.list) = IntOf(RightOfColon) - IntOf(LeftOfColon) + 1
              /\ ret.list[1] = IntOf(LeftOfColon)
              /\ ret.list[Len(ret.list)] = IntOf(RightOfColon)
              /\ \A i \in 1..(Len(ret.list) - 1) : ret.list[i + 1] = ret.list[i] + 1
        /\ (~IsSingle /\ ~IsPair) =>
              /\ outcome = "raised"
              /\ exc.type = "ValueError"
              /\ ret = NoRet

\* "2:12" gave the eleven channels 2..12
C17_Witness ==
    /\ ChanCalled
    /\ ChanSpec = <<"2", ":", "1", "2">>
    /\ outcome = "returned"
    /\ ret.list = <<2, 3, 4, 5, 6, 7, 8, 9, 10, 11, 12>>

\* C18 (as claimed): list_of_channels given "A:B" with B < A raises an error and
\* returns no list, in particular no empty list.
C18_DescendingRangeFails ==
    (ChanCalled /\ IsPair /\ IntOf(RightOfColon) < IntOf(LeftOfColon)) =>
        /\ outcome = "raised"
        /\ ret = NoRet

----------------------------------------------------------------------------
(* disconnect, and write as a call of its own: the steps *)

\* what _is_session_valid finds in self.device.session: a session ("valid"), none
\* ("invalid"), or an exception that is neither AttributeError nor VisaIOError
\* ("raises"); a usable session is found valid, a dead one may still look valid
SessionProbes == IF session_valid THEN {"valid"} ELSE {"valid", "invalid", "raises"}

\* the inner except clause of disconnect: except (VisaIOError, AttributeError)
ResetFailureTolerated(f) == IsVisaIOError(f)

\* slip: the clause "except Exception" left out of disconnect
DisconnectCatches_visa_only(f) == IsVisaIOError(f)

\* the outer except clauses of disconnect: (VisaIOError, AttributeError), Exception
DisconnectCatches(f) == f \in Faults

\* kept for the properties: the call before this one, the values at the start of
\* this call, and how its reset write and its two close calls went
CallStart ==
    [before |-> IF op = "disconnect"
                THEN [op |-> op, rst |-> hist.rst, close |-> hist.close, rm |-> hist.rm]
                ELSE [op |-> op, rst |-> "none", close |-> "none", rm |-> "none"],
     device0 |-> device, is_connected0 |-> is_connected, res_man0 |-> res_man,
     session0 |-> session_valid, timeout0 |-> timeout,
     rst |-> "none", close |-> "none", rm |-> "none"]

\* the locals of disconnect: what _is_session_valid finds during the call
ProbeLoc(p) == [probe |-> p]

\* the call goes on at next
Continue(next, l) ==
    /\ pc' = next
    /\ loc' = l
    /\ outcome' = "none"
    /\ exc' = NoExc
    /\ ret' = NoRet

\* the call returns None
ReturnNone ==
    /\ pc' = "idle"
    /\ loc' = NoLoc
    /\ outcome' = "returned"
    /\ exc' = NoExc
    /\ ret' = [NoRet EXCEPT !.kind = "None"]

\* finally: self.device = None; self._is_connected = False, and on to the
\* ResourceManager block
ReleaseDevice(l) ==
    /\ device' = FALSE
    /\ is_connected' = FALSE
    /\ IF res_man THEN Continue("rm_close", l) /\ UNCHANGED res_man
       ELSE ReturnNone /\ UNCHANGED res_man

\* an exception f that no except clause of disconnect catches: the finally clause
\* runs and f leaves the method
Propagate(f) ==
    /\ device' = FALSE
    /\ is_connected' = FALSE
    /\ pc' = "idle"
    /\ loc' = NoLoc
    /\ outcome' = "raised"
    /\ exc' = [NoExc EXCEPT !.type = f]
    /\ ret' = NoRet
    /\ UNCHANGED res_man

\* the call disconnect(), up to its first transport call
CallDisconnect ==
    /\ pc = "idle"
    /\ op' = "disconnect"
    /\ arg' = NoArgs
    /\ log' = <<>>
    /\ hist' = CallStart
    /\ \/ /\ ~device
          /\ IF res_man THEN Continue("rm_close", ProbeLoc("none")) ELSE ReturnNone
          /\ UNCHANGED <<device, is_connected, res_man>>
       \/ /\ device
          /\ \E p \in SessionProbes :
                IF p = "raises" THEN ReleaseDevice(ProbeLoc(p))
                ELSE IF is_connected /\ p = "valid"
                     THEN /\ Continue("rst", ProbeLoc(p))
                          /\ UNCHANGED <<device, is_connected, res_man>>
                     ELSE IF p = "valid"
                          THEN /\ Continue("close", ProbeLoc(p))
                               /\ UNCHANGED <<device, is_connected, res_man>>
                          ELSE ReleaseDevice(ProbeLoc(p))
    /\ UNCHANGED <<heap, held, inst_scan, wrapper, session_valid, timeout,
                   inst_trig_sour, inst_errq>>

\* self.device.write("*RST"), then the second _is_session_valid()
ResetBeforeClose ==
    /\ op = "disconnect"
    /\ pc = "rst"
    /\ log' = Append(log, LogEntry("write", "*RST", 0))
    /\ \/ /\ CanAnswer
          /\ inst_trig_sour' = S_IMM
          /\ inst_scan' = NoScan
          /\ hist' = [hist EXCEPT !.rst = "done"]
          /\ Continue("close", loc)
          /\ UNCHANGED <<device, is_connected, res_man, session_valid>>
       \/ \E f \in Faults :
             /\ CanFail(f)
             /\ session_valid' = SessionAfterFault(f)
             /\ hist' = [hist EXCEPT !.rst = "failed"]
             /\ IF ResetFailureTolerated(f)
                THEN /\ Continue("close", loc)
                     /\ UNCHANGED <<device, is_connected, res_man>>
                ELSE IF DisconnectCatches(f) THEN ReleaseDevice(loc)
                     ELSE Propagate(f)
             /\ UNCHANGED <<inst_trig_sour, inst_scan>>
    /\ UNCHANGED <<heap, held, wrapper, timeout, inst_errq, op, arg>>

\* self.device.close()
CloseDevice ==
    /\ op = "disconnect"
    /\ pc = "close"
    /\ log' = Append(log, LogEntry("close", "device.close", 0))
    /\ \/ /\ session_valid' = FALSE
          /\ hist' = [hist EXCEPT !.close = "done"]
          /\ ReleaseDevice(loc)
       \/ \E f \in Faults :
             /\ CanFail(f)
             /\ session_valid' = SessionAfterFault(f)
             /\ hist' = [hist EXCEPT !.close = "failed"]
             /\ IF DisconnectCatches(f) THEN ReleaseDevice(loc) ELSE Propagate(f)
    /\ UNCHANGED <<heap, held, inst_scan, wrapper, timeout, inst_trig_sour, inst_errq,
                   op, arg>>

\* self.res_man.close(): whether it raises or not, self.res_man = None
CloseResourceManager ==
    /\ op = "disconnect"
    /\ pc = "rm_close"
    /\ log' = Append(log, LogEntry("close", "res_man.close", 0))
    /\ \/ hist' = [hist EXCEPT !.rm = "done"]
       \/ hist' = [hist EXCEPT !.rm = "failed"]
    /\ res_man' = FALSE
    /\ ReturnNone
    /\ UNCHANGED <<heap, held, inst_scan, wrapper, device, is_connected, session_valid,
                   timeout, inst_trig_sour, inst_errq, op, arg>>

\* the call write("SYST:BEEP:STAT OFF"), whole. With no device Daq970a stops at
\* its assert statement, or, where assert statements are compiled away, at the
\* attribute access inside the try block
CallWrite ==
    /\ pc = "idle"
    /\ op' = "write"
    /\ arg' = NoArgs
    /\ hist' = CallStart
    /\ \/ /\ wrapper = "KS34980A"
          /\ ~CheckConnection
          /\ log' = <<>>
          /\ Raise(<<"Device is not connected">>, <<>>)
          /\ UNCHANGED <<is_connected, session_valid>>
       \/ /\ wrapper = "Daq970a"
          /\ ~device
          /\ log' = <<>>
          /\ \/ /\ Raise(<<>>, <<>>)
                /\ exc' = [NoExc EXCEPT !.type = "AssertionError"]
             \/ Raise(WriteFailChain("AttributeError"), <<>>)
          /\ UNCHANGED <<is_connected, session_valid>>
       \/ /\ CheckConnection
          /\ device
          /\ log' = <<LogEntry("write", "SYST:BEEP:STAT OFF", 0)>>
          /\ \/ /\ CanAnswer
                /\ ReturnNone
                /\ UNCHANGED <<is_connected, session_valid>>
             \/ \E f \in Faults :
                   /\ CanFail(f)
                   /\ session_valid' = SessionAfterFault(f)
                   /\ is_connected' = ConnectedAfterWriteFault(f)
                   /\ Raise(WriteFailChain(f), <<>>)
    /\ UNCHANGED <<res_man, heap, held, inst_scan, wrapper, device, timeout,
                   inst_trig_sour, inst_errq>>

\* *IDN? replies: a 34980A, a DAQ970A and another instrument
IdnReplies ==
    { <<"K", ",", "3", "4", "9", "8", "0", "A", ",", "1", LF>>,
      <<"K", ",", "D", "A", "Q", "9", "7", "0", "A", ",", "1", LF>>,
      <<"K", ",", "3", "4", "4", "6", "1", "A", ",", "1", LF>> }
S_34980A == <<"3", "4", "9", "8", "0", "A">>
S_DAQ970A == <<"D", "A", "Q", "9", "7", "0", "A">>

\* the name argument of connect_device: None or a VISA resource name
ConnectNames == {"None", "TCPIP0::192.168.10.201::inst0::INSTR"}

\* sub in s
Contains(s, sub) ==
    \E i \in 1..(Len(s) - Len(sub) + 1) : SubSeq(s, i, i + Len(sub) - 1) = sub

\* an exception leaves the method as it is, unwrapped
RaiseRaw(type) ==
    /\ outcome' = "raised"
    /\ exc' = [NoExc EXCEPT !.type = type]
    /\ ret' = NoRet
    /\ loc' = NoLoc
    /\ pc' = "idle"

\* the call refresh_resources(), whole: pyvisa.ResourceManager() and
\* list_resources() each succeed or raise
CallRefreshResources ==
    /\ pc = "idle"
    /\ op' = "refresh_resources"
    /\ arg' = NoArgs
    /\ hist' = CallStart
    /\ \/ /\ log' = <<LogEntry("open", "ResourceManager", 0)>>
          /\ Raise(<<"Failed to initialize VISA ResourceManager">>, <<>>)
          /\ UNCHANGED res_man
       \/ /\ log' = <<LogEntry("open", "ResourceManager", 0),
                      LogEntry("query", "list_resources", 0)>>
          /\ res_man' = TRUE
          /\ \/ ReturnNone
             \/ Raise(<<"Failed to initialize VISA ResourceManager">>, <<>>)
    /\ UNCHANGED <<heap, held, inst_scan, wrapper, device, is_connected, session_valid,
                   timeout, inst_trig_sour, inst_errq>>

\* the locals of connect_device: the message of the exception that is on its way
ConnectLoc(chain) == [chain |-> chain]

\* the call connect_device(name), up to its first transport call
CallConnectDevice ==
    /\ pc = "idle"
    /\ op' = "connect_device"
    /\ \E name \in ConnectNames : arg' = [name |-> name]
    /\ log' = <<>>
    /\ hist' = CallStart
    /\ IF ~res_man THEN Raise(<<"ResourceManager is undefined">>, <<>>)
       ELSE IF arg'.name # "None" THEN Continue("c_open", ConnectLoc(<<>>))
       ELSE IF wrapper = "KS34980A" THEN ReturnNone
       ELSE Continue("c_find", ConnectLoc(<<>>))
    /\ UNCHANGED <<res_man, heap, held, inst_scan, wrapper, device, is_connected,
                   session_valid, timeout, inst_trig_sour, inst_errq>>

\* Daq970a.find_device, whole, with the instrument the one resource listed: the
\* resource is opened, asked *IDN? and closed; a VisaIOError counts as "not this
\* one", any other exception leaves connect_device
FindDevice ==
    /\ op = "connect_device"
    /\ pc = "c_find"
    /\ \/ \E r \in IdnReplies :
             /\ log' = log \o <<LogEntry("open", "open_resource", 0),
                                LogEntry("query", "*IDN?", r),
                                LogEntry("close", "_dev.close", 0)>>
             /\ IF Contains(r, S_DAQ970A) THEN Continue("c_open", loc)
                ELSE RaiseRaw("FileNotFoundError")
       \/ /\ log' = Append(log, LogEntry("open", "open_resource", 0))
          /\ RaiseRaw("FileNotFoundError")
       \/ /\ log' = Append(log, LogEntry("open", "open_resource", 0))
          /\ RaiseRaw("InvalidSession")
    /\ UNCHANGED <<res_man, heap, held, inst_scan, wrapper, device, is_connected,
                   session_valid, timeout, inst_trig_sour, inst_errq, op, arg, hist>>

\* the message KS34980A.connect_device wraps a failure f in
ConnectFailChain(f) ==
    IF IsVisaIOError(f) THEN <<"Failed to connect", f>>
    ELSE <<"Connection verification failed", f>>

\* self.res_man.open_resource(name). KS34980A keeps the handle in a local and sets
\* its timeout; Daq970a stores it in self.device at once and lets a failure out
OpenResource ==
    /\ op = "connect_device"
    /\ pc = "c_open"
    /\ log' = Append(log, LogEntry("open", "open_resource", 0))
    /\ \/ /\ wrapper = "KS34980A"
          /\ Continue("c_rst", loc)
          /\ UNCHANGED <<device, session_valid, timeout>>
       \/ /\ wrapper = "Daq970a"
          /\ device' = TRUE
          /\ session_valid' = TRUE
          /\ timeout' = DefaultTimeout(wrapper)
          /\ Continue("c_idn", loc)
       \/ \E f \in Faults :
             /\ IF wrapper = "KS34980A" THEN Raise(ConnectFailChain(f), <<>>)
                ELSE RaiseRaw(f)
             /\ UNCHANGED <<device, session_valid, timeout>>
    /\ UNCHANGED <<res_man, heap, held, inst_scan, wrapper, is_connected,
                   inst_trig_sour, inst_errq, op, arg, hist>>

\* KS34980A: device.write("*RST") on the handle just opened
ConnectReset ==
    /\ op = "connect_device"
    /\ pc = "c_rst"
    /\ log' = Append(log, LogEntry("write", "*RST", 0))
    /\ \/ /\ inst_trig_sour' = S_IMM
          /\ inst_scan' = NoScan
          /\ Continue("c_idn", loc)
       \/ \E f \in Faults :
             /\ Continue("c_close", ConnectLoc(ConnectFailChain(f)))
             /\ UNCHANGED <<inst_trig_sour, inst_scan>>
    /\ UNCHANGED <<res_man, heap, held, wrapper, device, is_connected, session_valid,
                   timeout, inst_errq, op, arg, hist>>

\* the identity check of KS34980A.connect_device: "34980A" in idn_response;
\* Daq970a.connect_device has none
IdentityVerified(w, idn_response) == w = "Daq970a" \/ Contains(idn_response, S_34980A)

\* idn_response = device.query("*IDN?") and what follows it
ConnectIdn ==
    /\ op = "connect_device"
    /\ pc = "c_idn"
    /\ \/ \E r \in IdnReplies :
             /\ log' = Append(log, LogEntry("query", "*IDN?", r))
             /\ IF IdentityVerified(wrapper, r)
                THEN /\ device' = TRUE
                     /\ is_connected' = TRUE
                     /\ session_valid' = TRUE
                     /\ timeout' = DefaultTimeout(wrapper)
                     /\ ReturnNone
                ELSE /\ Continue("c_close",
                                 ConnectLoc(<<"Connection verification failed",
                                              "Connected device is not a 34980A">>))
                     /\ UNCHANGED <<device, is_connected, session_valid, timeout>>
       \/ \E f \in Faults :
             /\ log' = Append(log, LogEntry("query", "*IDN?", <<>>))
             /\ IF wrapper = "KS34980A"
                THEN /\ Continue("c_close", ConnectLoc(ConnectFailChain(f)))
                     /\ UNCHANGED session_valid
                ELSE /\ RaiseRaw(f)
                     /\ session_valid' = SessionAfterFault(f)
             /\ UNCHANGED <<device, is_connected, timeout>>
    /\ UNCHANGED <<res_man, heap, held, inst_scan, wrapper, inst_trig_sour, inst_errq,
                   op, arg, hist>>

\* KS34980A, the except clauses: device.close() on the handle just opened, its own
\* failure passed over, then the wrapper's exception
ConnectClose ==
    /\ op = "connect_device"
    /\ pc = "c_close"
    /\ log' = Append(log, LogEntry("close", "device.close", 0))
    /\ \/ hist' = [hist EXCEPT !.close = "done"]
       \/ hist' = [hist EXCEPT !.close = "failed"]
    /\ Raise(loc.chain, <<>>)
    /\ UNCHANGED <<res_man, heap, held, inst_scan, wrapper, device, is_connected,
                   session_valid, timeout, inst_trig_sour, inst_errq, op, arg>>

\* a wrapper constructed on a named resource, before its first call
InitDisc ==
    /\ wrapper \in {"KS34980A", "Daq970a"}
    /\ device = TRUE
    /\ is_connected = TRUE
    /\ session_valid = TRUE
    /\ timeout = DefaultTimeout(wrapper)
    /\ inst_trig_sour = S_IMM
    /\ inst_errq = <<>>
    /\ inst_scan = NoScan
    /\ res_man = TRUE
    /\ heap = NoHeap
    /\ held = <<>>
    /\ op = "__init__"
    /\ pc = "idle"
    /\ arg = NoArgs
    /\ loc = NoLoc
    /\ hist = [before |-> [op |-> "none", rst |-> "none", close |-> "none",
                           rm |-> "none"],
               device0 |-> TRUE, is_connected0 |-> TRUE, res_man0 |-> TRUE,
               session0 |-> TRUE, timeout0 |-> DefaultTimeout(wrapper),
               rst |-> "none", close |-> "none", rm |-> "none"]
    /\ log = <<>>
    /\ outcome = "none"
    /\ exc = NoExc
    /\ ret = NoRet

NextDisc ==
    \/ CallWrite
    \/ CallDisconnect
    \/ ResetBeforeClose
    \/ CloseDevice
    \/ CloseResourceManager
    \/ CallRefreshResources
    \/ CallConnectDevice
    \/ FindDevice
    \/ OpenResource
    \/ ConnectReset
    \/ ConnectIdn
    \/ ConnectClose

SpecDisc == InitDisc /\ [][NextDisc]_vars

----------------------------------------------------------------------------
(* Properties of disconnect *)

\* the call at hand is disconnect(), and it has ended
DisconnectEnded == op = "disconnect" /\ pc = "idle"

\* the call at hand has made the transport call cmd
Called(cmd) == \E i \in 1..Len(log) : log[i].cmd = cmd

\* the wrapper holds neither a device handle nor a resource manager
Released == ~device /\ ~is_connected /\ ~res_man

\* C19: disconnect() never raises, whatever the reset write, device.close() and
\* res_man.close() do and whatever state the session is in: it returns with the
\* device handle None, the connected flag false and the resource manager None.
\* A disconnect() that follows a disconnect() returns without a transport call
\* and leaves the connection state as it found it.
C19_DisconnectNeverRaisesAndReleases ==
    /\ op = "disconnect" => outcome # "raised"
    /\ DisconnectEnded => outcome = "returned" /\ exc = NoExc /\ Released
    /\ op = "disconnect" /\ hist.before.op = "disconnect" =>
          /\ pc = "idle"
          /\ log = <<>>
          /\ ~hist.device0 /\ ~hist.is_connected0 /\ ~hist.res_man0
          /\ Released
          /\ session_valid = hist.session0
          /\ timeout = hist.timeout0

\* a second disconnect() has returned after a first one whose reset write, device
\* close and resource manager close all failed
C19_Witness ==
    /\ DisconnectEnded
    /\ hist.before = [op |-> "disconnect", rst |-> "failed", close |-> "failed",
                      rm |-> "failed"]
    /\ outcome = "returned"
    /\ log = <<>>
    /\ Released

\* C20: in a disconnect() of a connected wrapper whose session is valid the
\* write of *RST comes before device.close(), and when that write fails
\* device.close() is still called.
C20_ResetThenCloseEvenAfterFailedReset ==
    op = "disconnect" /\ hist.device0 /\ hist.is_connected0 /\ hist.session0 =>
        /\ \A i \in 1..Len(log) :
              log[i].cmd = "device.close" => \E j \in 1..(i - 1) : log[j].cmd = "*RST"
        /\ pc = "idle" => Called("*RST")
        /\ pc = "idle" /\ hist.rst = "failed" => Called("device.close")

----------------------------------------------------------------------------
(* C21 *)

\* the model string each wrapper is written for
ExpectedModel(w) == IF w = "KS34980A" THEN S_34980A ELSE S_DAQ970A

\* the call at hand is connect_device on a named resource, made on a wrapper that
\* held no device, and it has ended
NamedConnectEnded ==
    /\ op = "connect_device" /\ pc = "idle"
    /\ arg.name # "None"
    /\ ~hist.device0 /\ ~hist.is_connected0

\* the *IDN? query of the call was answered, and the reply lacks the model string
IdentityMismatch ==
    \E i \in 1..Len(log) :
        /\ log[i].cmd = "*IDN?"
        /\ log[i].arg # <<>>
        /\ ~Contains(log[i].arg, ExpectedModel(wrapper))

\* C21: connect_device on a named resource whose *IDN? reply does not contain the
\* wrapper's model string raises, leaves the connected flag false and the device
\* handle None, and has called close() on the session it opened; for both wrappers.
C21_IdentityMismatchLeavesDisconnected ==
    (NamedConnectEnded /\ IdentityMismatch) =>
        /\ outcome = "raised"
        /\ ~is_connected
        /\ ~device
        /\ \E i \in 1..Len(log) : \E j \in (i + 1)..Len(log) :
              log[i].cmd = "open_resource" /\ log[j].cmd = "device.close"

----------------------------------------------------------------------------
(* C22 *)

AcqQueries == <<"ROUT:SCAN:SIZE?", "TRIG:COUN?", "READ?">>

\* C22: at every moment of a measure() or get_raw_data() call the transport calls
\* made are a prefix of ROUT:SCAN:SIZE?, TRIG:COUN?, READ?, all of them queries
\* (no write, no SYST:ERR?); a call that returns has made all three and its result
\* has the channel count and trigger count the instrument holds; the transport
\* timeout, the connected flag and the device handle are as they were when the
\* call began; and a measure() that follows a returned measure(), with its three
\* queries answered and a well-formed reply, returns as well.
C22_AcquisitionIsThreeQueries ==
    op \in AcqOps =>
        /\ IsPrefix(Cmds(log), AcqQueries)
        /\ \A i \in 1..Len(log) : log[i].kind = "query"
        /\ Len(log) >= hist.inp.answered
        /\ (pc = "idle" /\ outcome = "returned") =>
              /\ Cmds(log) = AcqQueries
              /\ ret.kind = "stats" => Len(ret.list_mean) = NumChannels
              /\ ret.kind = "raw" =>
                    /\ Len(ret.values) = NumChannels
                    /\ \A c \in 1..NumChannels : Len(ret.values[c]) = NumTriggers
        /\ timeout = hist.conn0.timeout
        /\ is_connected = hist.conn0.is_connected
        /\ device = hist.conn0.device
        /\ (op = "measure" /\ hist.prev.op = "measure" /\ hist.prev.outcome = "returned"
                /\ AcqAnswered /\ WellFormed(hist.inp.str_read)) =>
              outcome = "returned"

\* a measure() of two channels and three triggers returned right after a returned
\* measure()
C22_Witness ==
    /\ op = "measure" /\ pc = "idle" /\ outcome = "returned"
    /\ hist.prev.op = "measure" /\ hist.prev.outcome = "returned"
    /\ NumChannels = 2 /\ NumTriggers = 3
    /\ Cmds(log) = AcqQueries
    /\ Len(ret.list_mean) = 2

----------------------------------------------------------------------------
(* C23, C24 *)

\* the CONF? query of the call was answered with a reply holding a malformed entry
MalformedConfAnswered ==
    \E i \in Positions(log, "CONF?") :
        log[i].arg # <<>> /\ log[i].arg[1] \in MalformedConfReplies

\* the last transport call of the call was a query other than SYST:ERR? that failed
LastQueryFailed ==
    /\ log # <<>>
    /\ log[Len(log)].kind = "query"
    /\ log[Len(log)].cmd # "SYST:ERR?"
    /\ log[Len(log)].arg = <<>>

\* C23: a KS34980A.configure_volt_dc call whose CONF? reply holds a malformed entry
\* goes on: it ends only after TRIG:SOUR? was sent; it raises only when a later
\* query fails or the error check finds errors queued; once past the timeout block
\* it has sent TRIG:SOUR?, TRIG:TIM? and TRIG:COUN? after CONF? and has set the
\* timeout a given ms_timeout asks for; with every SYST:ERR? answered it returns
\* the configuration when no error was queued and raises KS34980AError carrying
\* the queued errors when some were.
C23_MalformedConfDoesNotAbort ==
    (InConfigure /\ wrapper = "KS34980A" /\ MalformedConfAnswered) =>
        /\ pc = "idle" => Positions(log, "TRIG:SOUR?") # {}
        /\ outcome = "raised" => (exc.errors # <<>> \/ LastQueryFailed)
        /\ PastTimeoutBlock =>
              /\ \E i \in Positions(log, "CONF?") : \E j \in Positions(log, "TRIG:SOUR?") :
                    \E k \in Positions(log, "TRIG:TIM?") :
                       \E l \in Positions(log, "TRIG:COUN?") : i < j /\ j < k /\ k < l
              /\ arg.ms_timeout.kind = "num" => timeout = arg.ms_timeout.v
              /\ arg.ms_timeout.kind = "None" => timeout = hist.timeout0
        /\ (DrainAnswered /\ hist.errq0 = <<>>) => (outcome = "returned" /\ ret.kind = "config")
        /\ (DrainAnswered /\ hist.errq0 # <<>>) =>
              /\ outcome = "raised"
              /\ exc.type = "KS34980AError"
              /\ exc.errors = hist.errq0

\* a call whose CONF? reply held a range that is no number logged the entry and
\* returned the configuration
C23_Witness ==
    /\ ConfigReturned /\ wrapper = "KS34980A"
    /\ MalformedConfAnswered
    /\ \E i \in 1..Len(log) : log[i].kind = "log"
    /\ Positions(log, "SYST:ERR?") # {}
    /\ arg.ms_timeout.kind = "num" /\ timeout = arg.ms_timeout.v

\* the entries of the CONF? replies that are well formed
WellFormedConfEntries == { <<"V", " ", "1", ",", "3">>, <<"V", " ", "2", ",", "3">> }

\* C24 (as claimed): configure_volt_dc whose CONF? reply held one malformed entry
\* among two returns a list_conf without that entry: the one well-formed entry.
C24_MalformedEntryOmitted ==
    (ConfigReturned /\ MalformedConfAnswered) =>
        /\ Len(ret.list_conf) = 1
        /\ ret.list_conf[1] \in WellFormedConfEntries

----------------------------------------------------------------------------
(* C25 *)

\* what the instrument replied to the one query cmd of the call
Reported(cmd) == log[CHOOSE i \in Positions(log, cmd) : TRUE].arg

\* every write of the call comes before the query cmd
AfterTheWrites(cmd) ==
    \A i \in 1..Len(log) : \A j \in Positions(log, cmd) : log[i].kind = "write" => i < j

\* C25: the NPLC list, trigger source, interval and count configure_volt_dc returns
\* are what the instrument replied to VOLT:DC:NPLC?, TRIG:SOUR?, TRIG:TIM? and
\* TRIG:COUN?, the three trigger queries being made after every write of the call
\* and the NPLC query after the NPLC write; the values of the caller's request are
\* not used, and with ms_timeout = "AUTO" the timeout is computed from the
\* replied interval, count and NPLC list.
C25_ReturnedValuesAreReported ==
    ConfigReturned =>
        /\ Reported("VOLT:DC:NPLC?") = <<ret.list_nplc>>
        /\ Reported("TRIG:SOUR?") # <<>>
        /\ Rstrip(Reported("TRIG:SOUR?")[1]) = ret.trig_source
        /\ Reported("TRIG:TIM?") = <<ret.trig_time>>
        /\ Reported("TRIG:COUN?") = <<ret.trig_count>>
        /\ AfterTheWrites("TRIG:SOUR?")
        /\ AfterTheWrites("TRIG:TIM?")
        /\ AfterTheWrites("TRIG:COUN?")
        /\ \A i \in Positions(log, "VOLT:DC:NPLC") :
              \A j \in Positions(log, "VOLT:DC:NPLC?") : i < j
        /\ arg.ms_timeout.kind = "AUTO" =>
              \E T \in TrigTimes, C \in TrigCounts, N \in NplcReplies :
                 /\ Reported("TRIG:TIM?") = <<T>>
                 /\ Reported("TRIG:COUN?") = <<C>>
                 /\ Reported("VOLT:DC:NPLC?") = <<N>>
                 /\ timeout = DerivedTimeout(T, N, C)

\* interval 1.0 s, count 10 and NPLC 10 requested; 0.1 s, 1 and other NPLC values
\* reported, returned, and used for the timeout: 3120 ms
C25_Witness ==
    /\ ConfigReturned
    /\ arg.tup_trig_tim_cnt = <<1000000, 10>>
    /\ arg.nplc = <<10000>>
    /\ arg.ms_timeout.kind = "AUTO"
    /\ ret.trig_time = 100000
    /\ ret.trig_count = 1
    /\ ret.list_nplc # arg.nplc
    /\ ret.trig_source = S_TIM
    /\ timeout = 3120000

----------------------------------------------------------------------------
(* C26 *)

\* a transport call of the call failed: a write, a query, or the SYST:ERR? query of
\* the error check
TransportCallFailed ==
    \/ "Write failed" \in Range(exc.chain)
    \/ LastQueryFailed
    \/ hist.drain_fault

\* C26 (as claimed): a KS34980A.configure_volt_dc call one of whose transport
\* calls failed, the SYST:ERR? query of the error check included, ends by raising
\* KS34980AError and returns nothing.
C26_TransportFailureFailsConfigure ==
    (InConfigure /\ wrapper = "KS34980A" /\ Finished /\ TransportCallFailed) =>
        /\ outcome = "raised"
        /\ exc.type = "KS34980AError"
        /\ ret = NoRet

----------------------------------------------------------------------------
(* C27 *)

\* the scan list a ROUT:SCAN? reply carries is the empty list: "(@" followed by ")"
CarriesEmptyList(reply) ==
    \E k \in 1..(Len(reply) - 2) :
        reply[k] = "(" /\ reply[k + 1] = "@" /\ reply[k + 2] = ")"

\* C27: Daq970a.configure_volt_dc begins with the query ROUT:SCAN?; its second
\* transport call is the write of ROUT:OPEN exactly when the reply carried a scan
\* list that is not empty; ROUT:OPEN is written nowhere else, and always before
\* ROUT:SCAN.
C27_PreviousScanListOpened ==
    (InConfigure /\ wrapper = "Daq970a") =>
        /\ log # <<>> => (log[1].kind = "query" /\ log[1].cmd = "ROUT:SCAN?")
        /\ Positions(log, "ROUT:OPEN") \subseteq {2}
        /\ Len(log) >= 2 =>
              /\ log[1].arg # <<>>
              /\ log[2].cmd = "ROUT:OPEN" <=> ~CarriesEmptyList(log[1].arg[1])
        /\ \A i \in Positions(log, "ROUT:OPEN") : \A j \in Positions(log, "ROUT:SCAN") :
              i < j

\* the previous scan list was (@101:102): ROUT:OPEN, then ROUT:SCAN, and the call
\* returned
C27_Witness ==
    /\ ConfigReturned /\ wrapper = "Daq970a"
    /\ ~CarriesEmptyList(log[1].arg[1])
    /\ log[2] = LogEntry("write", "ROUT:OPEN", 0)
    /\ log[3].cmd = "ROUT:SCAN"

----------------------------------------------------------------------------
(* The life of a KS34980A connection *)

\* the value argument of nplc: None or a number
NplcValues == { <<>>, <<10000>> }

\* the message nplc() puts in front
NplcFailChain == <<"NPLC operation failed">>

\* the call returns a string
ReturnStr ==
    /\ pc' = "idle"
    /\ loc' = NoLoc
    /\ outcome' = "returned"
    /\ exc' = NoExc
    /\ ret' = [NoRet EXCEPT !.kind = "str"]

\* KS34980A: the call query("*IDN?"), whole
CallQuery ==
    /\ wrapper = "KS34980A"
    /\ pc = "idle"
    /\ op' = "query"
    /\ arg' = NoArgs
    /\ hist' = CallStart
    /\ \/ /\ ~CheckConnection
          /\ log' = <<>>
          /\ Raise(<<"Device is not connected">>, <<>>)
          /\ UNCHANGED session_valid
       \/ /\ CheckConnection
          /\ \/ /\ CanAnswer
                /\ \E r \in IdnReplies : log' = <<LogEntry("query", "*IDN?", r)>>
                /\ ReturnStr
                /\ UNCHANGED session_valid
             \/ \E f \in Faults :
                   /\ CanFail(f)
                   /\ log' = <<LogEntry("query", "*IDN?", <<>>)>>
                   /\ session_valid' = SessionAfterFault(f)
                   /\ IF IsVisaIOError(f) THEN Raise(QueryFailChain(f), <<>>)
                      ELSE RaiseRaw(f)
    /\ UNCHANGED <<res_man, heap, held, inst_scan, wrapper, device, is_connected,
                   timeout, inst_trig_sour, inst_errq>>

\* KS34980A: the call nplc(value), whole: the check, the write where a value is
\* given, the query
CallNplc ==
    /\ wrapper = "KS34980A"
    /\ pc = "idle"
    /\ op' = "nplc"
    /\ \E v \in NplcValues : arg' = [NoArgs EXCEPT !.nplc = v]
    /\ hist' = CallStart
    /\ LET written == IF arg'.nplc # <<>>
                      THEN <<LogEntry("write", "VOLT:DC:NPLC", arg'.nplc[1])>>
                      ELSE <<>>
       IN  \/ /\ ~CheckConnection
              /\ log' = <<>>
              /\ Raise(<<"Device is not connected">>, <<>>)
              /\ UNCHANGED <<is_connected, session_valid, inst_errq>>
           \/ /\ CheckConnection
              /\ arg'.nplc # <<>>
              /\ log' = written
              /\ \E f \in Faults :
                    /\ CanFail(f)
                    /\ session_valid' = SessionAfterFault(f)
                    /\ is_connected' = ConnectedAfterWriteFault(f)
                    /\ Raise(NplcFailChain \o WriteFailChain(f), <<>>)
              /\ UNCHANGED inst_errq
           \/ /\ CheckConnection
              /\ CanAnswer
              /\ inst_errq' \in (IF arg'.nplc # <<>>
                                 THEN QueueAfterWrite("VOLT:DC:NPLC", inst_errq)
                                 ELSE {inst_errq})
              /\ \/ /\ log' = Append(written, LogEntry("query", "VOLT:DC:NPLC?", 0))
                    /\ ReturnStr
                    /\ UNCHANGED <<is_connected, session_valid>>
                 \/ \E f \in Faults :
                       /\ log' = Append(written, LogEntry("query", "VOLT:DC:NPLC?", <<>>))
                       /\ session_valid' = SessionAfterFault(f)
                       /\ Raise(NplcFailChain \o QueryFailChain(f), <<>>)
                       /\ UNCHANGED is_connected
           \/ /\ CheckConnection
              /\ ~CanAnswer
              /\ arg'.nplc = <<>>
              /\ \E f \in SessionFaults :
                    /\ log' = <<LogEntry("query", "VOLT:DC:NPLC?", <<>>)>>
                    /\ session_valid' = SessionAfterFault(f)
                    /\ Raise(NplcFailChain \o QueryFailChain(f), <<>>)
              /\ UNCHANGED <<is_connected, inst_errq>>
    /\ UNCHANGED <<res_man, heap, held, inst_scan, wrapper, device, timeout,
                   inst_trig_sour>>

\* a KS34980A after its constructor: given a resource name and connected, or given
\* none and never connected
InitLife ==
    /\ wrapper = "KS34980A"
    /\ device \in BOOLEAN
    /\ is_connected = device
    /\ session_valid = device
    /\ timeout = DefaultTimeout(wrapper)
    /\ inst_trig_sour = S_IMM
    /\ inst_errq = <<>>
    /\ inst_scan = NoScan
    /\ res_man = TRUE
    /\ heap = NoHeap
    /\ held = <<>>
    /\ op = "__init__"
    /\ pc = "idle"
    /\ arg = NoArgs
    /\ loc = NoLoc
    /\ hist = [before |-> [op |-> "none", rst |-> "none", close |-> "none",
                           rm |-> "none"],
               device0 |-> device, is_connected0 |-> device, res_man0 |-> TRUE,
               session0 |-> device, timeout0 |-> DefaultTimeout(wrapper),
               rst |-> "none", close |-> "none", rm |-> "none"]
    /\ log = <<>>
    /\ outcome = "none"
    /\ exc = NoExc
    /\ ret = NoRet

\* the call configure_volt_dc("101:102", nplc, tup_trig_tim_cnt) with no ms_timeout
CallConfigureChannels ==
    /\ CallConfigure
    /\ arg'.str_channel = "101:102"
    /\ arg'.ms_timeout = NoneMs

NextLife ==
    \/ CallRefreshResources
    \/ CallConnectDevice
    \/ OpenResource
    \/ ConnectReset
    \/ ConnectIdn
    \/ ConnectClose
    \/ CallDisconnect
    \/ ResetBeforeClose
    \/ CloseDevice
    \/ CloseResourceManager
    \/ CallWrite
    \/ CallQuery
    \/ CallNplc
    \/ CallConfigureChannels
    \/ WriteRoutOpenAll
    \/ WriteRoutScan
    \/ WriteNplc
    \/ QueryNplc
    \/ WriteConfVoltDc
    \/ WriteTrigSour
    \/ WriteTrigTim
    \/ WriteTrigCoun
    \/ QueryConf
    \/ QueryTrigSour
    \/ QueryTrigTim
    \/ QueryTrigCoun
    \/ QuerySystErr
    \/ CallMeasure
    \/ CallGetRawData
    \/ QueryNumChannels
    \/ QueryNumTriggers
    \/ QueryRead

SpecLife == InitLife /\ [][NextLife]_vars

----------------------------------------------------------------------------
(* _extract_channel_list over block strings *)

\* the longest block string drawn from BlockChars
MaxBlockLen == 5

\* the characters of the block strings: the marker, digits, a payload character,
\* a blank
BlockChars == {"#", "0", "1", "2", "(", " "}

\* the block of the docstring, and the same payload under a header that counts it
DocBlock == <<"#", "1", "6", "(", "@", "1", "0", "1", ":", "1", "0", "5", ")">>
FullBlock == <<"#", "2", "1", "0", "(", "@", "1", "0", "1", ":", "1", "0", "5", ")">>
BlockStrings ==
    UNION {[1..n -> BlockChars] : n \in 0..MaxBlockLen} \cup {DocBlock, FullBlock}

\* what the two int() calls and the index [1] raise: "none" where the function
\* returns
ExtractRaises(block_string) ==
    IF ~StartsWith(block_string, <<"#">>) THEN "none"
    ELSE IF Len(block_string) < 2 THEN "IndexError"
    ELSE IF block_string[2] \notin Digits THEN "ValueError"
    ELSE IF ~CanInt(Slice(block_string, 2, 2 + DigitVal(block_string[2])))
         THEN "ValueError"
    ELSE "none"

\* the call _extract_channel_list(arg.block_string)
CallExtractChannelList ==
    /\ op = "_extract_channel_list"
    /\ pc = "call"
    /\ LET e == ExtractRaises(arg.block_string)
       IN  IF e # "none"
           THEN /\ outcome' = "raised"
                /\ exc' = [NoExc EXCEPT !.type = e]
                /\ ret' = NoRet
           ELSE /\ outcome' = "returned"
                /\ exc' = NoExc
                /\ ret' = [kind |-> "str",
                           text |-> _extract_channel_list(arg.block_string)]
    /\ pc' = "idle"
    /\ UNCHANGED <<res_man, heap, held, inst_scan, wrapper, device, is_connected,
                   session_valid, timeout, inst_trig_sour, inst_errq, op, arg, loc,
                   hist, log>>

\* the method reads nothing of the wrapper: it is about to be applied to a string
InitBlock ==
    /\ wrapper = "Daq970a"
    /\ device = FALSE
    /\ is_connected = FALSE
    /\ session_valid = FALSE
    /\ timeout = 0
    /\ inst_trig_sour = S_IMM
    /\ inst_errq = <<>>
    /\ inst_scan = NoScan
    /\ op = "_extract_channel_list"
    /\ pc = "call"
    /\ arg \in [block_string : BlockStrings]
    /\ loc = NoLoc
    /\ hist = NoHist
    /\ log = <<>>
    /\ outcome = "none"
    /\ exc = NoExc
    /\ ret = NoRet
    /\ res_man = FALSE
    /\ heap = NoHeap
    /\ held = <<>>

NextBlock == CallExtractChannelList

SpecBlock == InitBlock /\ [][NextBlock]_vars

----------------------------------------------------------------------------
(* C28 *)

\* the block of the call; its header read as '#', one digit n, n digits of length L
Block == arg.block_string
BlockCalled == op = "_extract_channel_list" /\ pc = "idle"
HeaderDigits == DigitVal(Block[2])
WellFormedBlock ==
    /\ Len(Block) >= 2
    /\ Block[1] = "#"
    /\ Block[2] \in Digits
    /\ HeaderDigits >= 1
    /\ Len(Block) >= 2 + HeaderDigits
    /\ \A i \in 3..(2 + HeaderDigits) : Block[i] \in Digits
BlockLength == IntOf(SubSeq(Block, 3, 2 + HeaderDigits))
Payload == SubSeq(Block, 3 + HeaderDigits, Len(Block))
\* the first n characters of s, all of s where it is shorter
FirstChars(s, n) == SubSeq(s, 1, IF n < Len(s) THEN n ELSE Len(s))
\* the input has no leading '#'
Unmarked == Block = <<>> \/ Block[1] # "#"
\* the rule for '#', n, L, payload and the rule for an input without '#'
BlockRule ==
    /\ WellFormedBlock =>
          /\ outcome = "returned"
          /\ ret.text = FirstChars(Payload, BlockLength)
    /\ Unmarked =>
          /\ outcome = "returned"
          /\ ret.text = Strip(Block)

----------------------------------------------------------------------------
(* C29 *)

\* the methods of KS34980A that begin with _check_connection
GuardedOps == {"write", "query", "nplc", "configure_volt_dc", "measure", "get_raw_data"}
\* a step that calls a guarded method of a KS34980A that is not connected
NotConnectedCall ==
    /\ wrapper = "KS34980A"
    /\ pc = "idle"
    /\ ~(is_connected /\ device)
    /\ op' \in GuardedOps
\* the call has ended at once with KS34980AError "Device is not connected" and no
\* transport call
FailedAtTheCheck ==
    /\ pc' = "idle"
    /\ outcome' = "raised"
    /\ exc'.type = "KS34980AError"
    /\ exc'.chain = <<"Device is not connected">>
    /\ log' = <<>>
    /\ UNCHANGED <<device, is_connected, session_valid, timeout, res_man,
                   inst_trig_sour, inst_errq, inst_scan>>

\* C29: on a KS34980A that is not connected (never connected, or after
\* disconnect()) every write, query, nplc, configure_volt_dc, measure and
\* get_raw_data call raises KS34980AError and performs no transport I/O; and in
\* every reachable state a true connected flag comes with a device handle.
C29_NotConnectedCallsFail ==
    /\ [](is_connected => device)
    /\ [][NotConnectedCall => FailedAtTheCheck]_vars

\* query() was called after a disconnect() and failed at the check
C29_Witness ==
    /\ wrapper = "KS34980A"
    /\ op = "query"
    /\ pc = "idle"
    /\ hist.before.op = "disconnect"
    /\ ~hist.is_connected0
    /\ ~hist.device0
    /\ outcome = "raised"
    /\ exc.chain = <<"Device is not connected">>
    /\ log = <<>>

----------------------------------------------------------------------------
(* C30 *)

\* the message of the failure f contains "Invalid session handle"
SaysInvalidSession(f) == f \in SessionFaults
\* write() / query() has ended with a failure of its transport call
TransportFailed(o) ==
    /\ wrapper = "KS34980A"
    /\ op = o
    /\ pc = "idle"
    /\ outcome = "raised"
    /\ log # <<>>
FailureOfCall == exc.chain[Len(exc.chain)]

\* C30 (as claimed): a failure of KS34980A.write whose message contains "Invalid
\* session handle" leaves the connected flag false; any other write failure and
\* any query failure leave the flag as it was.
C30_InvalidSessionClearsFlag ==
    /\ TransportFailed("write") =>
          IF SaysInvalidSession(FailureOfCall) THEN ~is_connected
          ELSE is_connected = hist.is_connected0
    /\ TransportFailed("query") => is_connected = hist.is_connected0

====
